---- MODULE Spec2Model ----
(***************************************************************************)
(* The application workflow of the AutoJob single-page application: the    *)
(* JobHunter component (three revisions of it are in the repository), the  *)
(* gemini service functions it awaits, and the onApply sink of App.        *)
(*                                                                         *)
(* An async handler is modelled as a task: the action that invokes it runs *)
(* the handler up to its first await, and one action per await resumes it  *)
(* with the outcome of the awaited call and runs it to the next await.     *)
(* A handler reads React state through the closure of the render it was    *)
(* created in, so a task carries the values it captured when invoked.      *)
(***************************************************************************)
EXTENDS Integers, Sequences, FiniteSets, TLC

VARIABLES
  component,          \* which revision of JobHunter is mounted
  profile,            \* the profile prop
  jobInput, isProcessing, isDiscovering, discoveredJobs, currentJob, match,
  mutationReport, generatedArtifacts, automationStep, isBulkActive,
  bulkProgress, stopBulkRef, risk,            \* the component's state
  logs,               \* the lines the last step appended to the logs state;
                      \* no handler reads the list, it is only rendered
  applications,       \* App's state.applications
  activeStrategy,     \* App's state.activeStrategy
  tasks,              \* the async handlers in flight
  nextId,             \* handler invocations so far, plus one
  faults,             \* calls so far that the model did not answer as asked
  app,                \* which revision of App is mounted
  session,            \* App's session state: a user is signed in
  supabase,           \* the rows of the profiles and applications tables
  error,              \* App's error state, rendered as a banner
  stateProfile,       \* App's state.profile
  saved,              \* the profile of the last upsert the store accepted
  appTasks,           \* App's async handlers in flight
  activeTab,          \* App's activeTab state
  isCommandProcessing,
  stateTasks,         \* App's state.tasks: the status of each task
  roadmap,            \* App's state.roadmap
  ev                  \* the step just taken

vars == <<component, profile, jobInput, isProcessing, isDiscovering,
          discoveredJobs, currentJob, match, mutationReport,
          generatedArtifacts, automationStep, logs, isBulkActive,
          bulkProgress, stopBulkRef, risk, applications, activeStrategy,
          tasks, nextId, faults, ev,
         app, session, supabase, error, stateProfile, saved, appTasks,
         activeTab, isCommandProcessing, stateTasks, roadmap>>

-----------------------------------------------------------------------------
(* Bounds *)

\* handler invocations per behaviour; one that returns at its entry guard is
\* not counted
MaxOps == 3
\* longest list searchJobs returns
MaxQueue == 2
\* calls per behaviour that the hosted model fails or answers with no or
\* unparseable text
MaxFaults == 1

-----------------------------------------------------------------------------
(* Values *)

PENDING == "PENDING"
EXTRACTING == "EXTRACTING"
MATCHING == "MATCHING"
GENERATING_CL == "GENERATING_CL"
MUTATING_RESUME == "MUTATING_RESUME"
APPLYING == "APPLYING"
VERIFYING == "VERIFYING"
COMPLETED == "COMPLETED"
FAILED == "FAILED"
RISK_HALT == "RISK_HALT"
STRATEGIZING == "STRATEGIZING"

ApplicationStatus ==
  {PENDING, EXTRACTING, MATCHING, GENERATING_CL, MUTATING_RESUME, APPLYING,
   COMPLETED, FAILED, RISK_HALT, "INTERPRETING", STRATEGIZING, "AUGMENTING",
   VERIFYING}

\* JavaScript's undefined, for a string-valued field
Undefined == "undefined"

\* the default of matchThreshold in runBulkDeployment
DefaultThreshold == 70

\* strings that start with "http"
HttpUrls == {"https://acme.example/jobs/1", "https://initech.example/jobs/3",
             "https://umbrella.example/jobs/4", "https://acme.example/apply"}

UrlParses_lenient(s) == TRUE

\* new URL(s) throws a TypeError unless s is an absolute URL
UrlParses(s) == s \in HttpUrls \cup {"HTTPS://ACME.EXAMPLE/JOBS/9"}

\* s.startsWith('http'), which tells upper case from lower case
startsWithHttp(s) == s \in HttpUrls

\* s.trim() is the empty string
trimIsEmpty(s) == s \in {"", "   "}

\* the k-th listing the search model can return; the second one carries a
\* URL without a scheme
DiscoveredJob(k) ==
  [title |-> "Staff Engineer", company |-> "Acme",
   url |-> CASE k = 1 -> "https://acme.example/jobs/1"
             [] k = 2 -> "careers.globex.example/2"
             [] k = 3 -> "https://initech.example/jobs/3"
             [] OTHER -> "https://umbrella.example/jobs/4"]

NoJob == [id |-> 0, title |-> Undefined, company |-> Undefined, applyUrl |-> Undefined]
NoMatch == [score |-> -1]
NoMutation == [mutatedResume |-> Undefined, ats |-> -1]
NoProof == [dispatchHash |-> Undefined, serverStatusCode |-> 0]

\* what the hosted model answers to one generateContent request
ResponseKinds == {"json", "empty", "garbage", "error"}

\* the scores the matching model returns
Scores == {69, 70}

\* matchThreshold values of the profile
Thresholds == {0, 50}

\* a value that may be null or undefined
Null == <<>>
Some(v) == <<v>>

\* a UserProfile, types.ts:45-61, by the fields that vary here
UserProfile(fullName, resumeTracks, matchThreshold) ==
  [fullName |-> fullName, email |-> "ada@example.org", phone |-> "",
   linkedin |-> "", portfolio |-> "", resumeTracks |-> resumeTracks,
   preferences |-> [matchThreshold |-> matchThreshold, remoteOnly |-> TRUE]]

\* one resume track
Track == [id |-> "t1", name |-> "Engineering", content |-> "resume"]

\* the profile prop, by the fields JobHunter and the services read:
\* preferences.matchThreshold and resumeTracks
Profiles == [matchThreshold : Thresholds, resumeTracks : {<<>>, <<Track>>}]

\* the profiles a user saves
UserProfiles ==
  {UserProfile(n, r, m) : n \in {"", "Ada"}, r \in {<<>>, <<Track>>},
                          m \in {0, DefaultThreshold}}

\* DEFAULT_PROFILE of constants.tsx
DEFAULT_PROFILE == UserProfile("New User", <<Track>>, DefaultThreshold)

\* a || d where a is a string column: null, undefined and "" are falsy
OrString(a, d) == IF a = Null \/ a = Some("") THEN d ELSE a[1]

\* a || d where a is an array or an object column: only null and undefined are
\* falsy
OrObject(a, d) == IF a = Null THEN d ELSE a[1]

\* the row handleUpdateProfile upserts, App.tsx:117-127
UpsertRow(p) ==
  [full_name |-> Some(p.fullName), email |-> Some(p.email), phone |-> Some(p.phone),
   linkedin |-> Some(p.linkedin), portfolio |-> Some(p.portfolio),
   resume_tracks |-> Some(OrObject(Some(p.resumeTracks), <<>>)),
   preferences |-> Some(p.preferences)]

\* the row fetchCloudData inserts for a user without one, App.tsx:55-62
InitialRow ==
  [full_name |-> Some(DEFAULT_PROFILE.fullName), email |-> Some("ada@example.org"),
   phone |-> Null, linkedin |-> Null, portfolio |-> Null,
   resume_tracks |-> Some(DEFAULT_PROFILE.resumeTracks),
   preferences |-> Some(DEFAULT_PROFILE.preferences)]

\* the profile fetchCloudData builds from a row, App.tsx:74-82
FromRow_emptyfalsy(row) ==
  [fullName |-> OrString(row.full_name, ""), email |-> OrString(row.email, ""),
   phone |-> OrString(row.phone, ""), linkedin |-> OrString(row.linkedin, ""),
   portfolio |-> OrString(row.portfolio, ""),
   resumeTracks |-> IF row.resume_tracks \in {Null, Some(<<>>)}
                    THEN DEFAULT_PROFILE.resumeTracks ELSE row.resume_tracks[1],
   preferences |-> OrObject(row.preferences, DEFAULT_PROFILE.preferences)]

FromRow(row) ==
  [fullName |-> OrString(row.full_name, ""), email |-> OrString(row.email, ""),
   phone |-> OrString(row.phone, ""), linkedin |-> OrString(row.linkedin, ""),
   portfolio |-> OrString(row.portfolio, ""),
   resumeTracks |-> OrObject(row.resume_tracks, <<>>),
   preferences |-> OrObject(row.preferences, DEFAULT_PROFILE.preferences)]

Ok(v) == [ok |-> TRUE, val |-> v, msg |-> ""]

Line(tag, detail) == [tag |-> tag, detail |-> detail]

-----------------------------------------------------------------------------
(* services/gemini.ts: each function maps the model's answer to the value  *)
(* the promise resolves to, or to a rejection.                             *)

\* the message of the error a failed request or a failed JSON.parse carries
ErrorOf(kind) == IF kind = "garbage" THEN "SyntaxError" ELSE "request failed"

extractJobData(input, kind, data, id) ==
  IF kind \in {"garbage", "error"}
  THEN [ok |-> FALSE, val |-> NoJob, msg |-> "Target site rejected analysis."]
  ELSE LET d == IF kind = "empty"
                THEN [title |-> Undefined, company |-> Undefined, applyUrl |-> ""]
                ELSE data
       IN [ok |-> TRUE, msg |-> "",
           val |-> [id |-> id, title |-> d.title, company |-> d.company,
                    applyUrl |-> IF d.applyUrl # "" THEN d.applyUrl
                                 ELSE IF startsWithHttp(input) THEN input ELSE "#"]]

\* the title, company and applyUrl the extraction model returns for a posting:
\* it may leave applyUrl out (the schema does not require it), and returns an
\* absolute URL otherwise, the posting's own where the input is one
JobData(input) ==
  { [title |-> "Staff Engineer", company |-> "Acme", applyUrl |-> u] :
      u \in {"", IF UrlParses(input) THEN input ELSE "https://acme.example/apply"} }

calculateMatchScore(kind, score) ==
  CASE kind = "json" -> [ok |-> TRUE, val |-> [score |-> score], msg |-> ""]
    [] kind = "empty" -> [ok |-> TRUE, val |-> [score |-> 0], msg |-> ""]
    [] OTHER -> [ok |-> FALSE, val |-> NoMatch, msg |-> ErrorOf(kind)]

generateCoverLetter(kind) ==
  CASE kind = "error" -> [ok |-> FALSE, val |-> Undefined, msg |-> ErrorOf(kind)]
    [] kind = "empty" -> [ok |-> TRUE, val |-> "Neural generation failed.", msg |-> ""]
    [] OTHER -> [ok |-> TRUE, val |-> "letter", msg |-> ""]

mutateResume(kind) ==
  CASE kind = "json" ->
         [ok |-> TRUE, val |-> [mutatedResume |-> "mutated", ats |-> 88], msg |-> ""]
    [] kind = "empty" -> [ok |-> TRUE, val |-> NoMutation, msg |-> ""]
    [] OTHER -> [ok |-> FALSE, val |-> NoMutation, msg |-> ErrorOf(kind)]

searchJobs(kind, n) ==
  CASE kind = "json" ->
         [ok |-> TRUE, val |-> [k \in 1..n |-> DiscoveredJob(k)], msg |-> ""]
    [] kind = "empty" -> [ok |-> TRUE, val |-> <<>>, msg |-> ""]
    [] OTHER -> [ok |-> FALSE, val |-> <<>>, msg |-> ErrorOf(kind)]

createStrategyPlan(kind) ==
  CASE kind = "json" -> [ok |-> TRUE, val |-> "plan", msg |-> ""]
    [] kind = "empty" -> [ok |-> TRUE, val |-> "plan without targetRoles", msg |-> ""]
    [] OTHER -> [ok |-> FALSE, val |-> "none", msg |-> ErrorOf(kind)]

\* what a promise of interpretCommand settles to
Resolved(action, reason) ==
  [settled |-> "resolved", action |-> action, reason |-> reason]

Rejected(msg) == [settled |-> "rejected", action |-> "none", reason |-> msg]

\* the commands the interpreter model answers with
ModelCommands ==
  {[action |-> "pause", reason |-> ""],
   [action |-> "strategy", reason |-> ""],
   [action |-> "blocked", reason |-> "not an instruction"]}

\* interpretCommand of gemini.ts:21-45; key: process.env.API_KEY is set.
\* getAi, the request and JSON.parse are all inside the try
interpretCommand(key, kind, cmd) ==
  IF ~key \/ kind \in {"garbage", "error"}
  THEN Resolved("blocked", "Failed to connect to Command Center.")
  ELSE IF kind = "empty"
  THEN Resolved("blocked", "")
  ELSE Resolved(cmd.action, cmd.reason)

\* interpretCommand of part_003:18-62: no try; a request without a key fails
P3_interpretCommand(key, kind, cmd) ==
  IF ~key THEN Rejected("request failed")
  ELSE CASE kind = "json" -> Resolved(cmd.action, cmd.reason)
         [] kind = "empty" -> Resolved("blocked", "Empty response")
         [] OTHER -> Rejected(ErrorOf(kind))

-----------------------------------------------------------------------------
(* Tasks *)

SingleKinds == {"startAutomation", "JH_startAutomation", "startTailoring"}

\* the handlers of part_000 that read the risk gate at their entry
GatedKinds == {"startAutomation", "runBulkDeployment", "processJob", "discoverJobs"}

\* an id no handler in flight has
FreshId == CHOOSE i \in 1..(Cardinality(tasks) + 1) : \A t \in tasks : t.id # i

NewTask(kind) ==
  [id |-> FreshId, kind |-> kind, pc |-> "entry",
   cap |-> automationStep,                 \* automationStep of the closure
   locked |-> risk.isLocked,               \* risk.isLocked of the closure
   job |-> currentJob,                     \* currentJob of the closure, or jobData
   input |-> jobInput,                     \* jobInput of the closure, or the override
   queue |-> discoveredJobs,               \* discoveredJobs of the closure
   i |-> 0,                                \* loop index of runBulkDeployment
   cl |-> Undefined, mutation |-> NoMutation, score |-> -1,
   trace |-> <<>>,                         \* statuses this run (iteration) entered
   calls |-> 0,                            \* collaborator calls of this run (iteration)
   emitted |-> 0,                          \* onApply calls of this invocation
   rejected |-> FALSE,                     \* an awaited collaborator call rejected
   threw |-> FALSE,                        \* the proof step threw
   msg |-> "",                             \* e.message of the error caught
   failed |-> 0, skipped |-> 0, started |-> 0,   \* iterations of a bulk run
   over |-> FALSE]                         \* the handler has returned

NoTask == [id |-> 0, kind |-> "none", pc |-> "none", cap |-> PENDING,
           locked |-> FALSE, job |-> NoJob, input |-> "", queue |-> <<>>,
           i |-> 0, cl |-> Undefined, mutation |-> NoMutation, score |-> -1,
           trace |-> <<>>, calls |-> 0, emitted |-> 0, rejected |-> FALSE,
           threw |-> FALSE, msg |-> "", failed |-> 0, skipped |-> 0, started |-> 0,
           over |-> FALSE]

\* the task enters a status (setAutomationStep) and issues a collaborator call
Step(t, status, pc) ==
  [t EXCEPT !.pc = pc, !.trace = Append(@, status), !.calls = @ + 1]

\* the task enters a status and waits for a timer
Wait(t, status, pc) == [t EXCEPT !.pc = pc, !.trace = Append(@, status)]

\* the handler returned at its entry guard
Returned(t) == [t EXCEPT !.id = 0, !.pc = "returned", !.over = TRUE]

Running(kind) == \E t \in tasks : t.kind = kind

\* a further handler can be invoked
CanStart == nextId <= MaxOps

\* the step just taken: the handler, and the task as it stood when the handler
\* returned, finished an iteration or was turned away at its entry
Event(op, t) == [op |-> op, t |-> t]

\* a step that leaves the task in flight
Mid == Event("step", NoTask)

\* the count of calls the hosted model did not answer as asked
Fault(kind) == faults + (IF kind = "json" THEN 0 ELSE 1)

-----------------------------------------------------------------------------
(* App: the onApply prop of JobHunter, App.tsx:203 *)

onApply(log) == <<log>> \o applications

ApplicationLog(job, cl, mutation, proof) ==
  [jobId |-> job.id, jobTitle |-> job.title, company |-> job.company,
   status |-> COMPLETED, url |-> job.applyUrl, coverLetter |-> cl,
   mutatedResume |-> mutation.mutatedResume, verification |-> proof]

-----------------------------------------------------------------------------
(* JobHunter, the revision with the risk gate and the bulk runner:         *)
(* part_000:269-724                                                         *)

addLog(l, tag, detail) == Append(l, Line(tag, detail))

\* the synchronous part of generateDispatchProof: it throws when the apply
\* URL does not parse or when JSON.stringify(resume) is undefined
generateDispatchProof(job, resume) ==
  IF UrlParses(job.applyUrl) /\ resume # Undefined
  THEN Ok([dispatchHash |-> "hash", serverStatusCode |-> 200])
  ELSE [ok |-> FALSE, val |-> NoProof, msg |-> "TypeError"]

Components == {"V3", "Hunter", "Tailor"}

\* the state of a JobHunter just mounted
JobHunterInit ==
  /\ component \in Components
  /\ profile \in Profiles
  /\ jobInput = ""
  /\ isProcessing = FALSE
  /\ isDiscovering = FALSE
  /\ discoveredJobs = <<>>
  /\ currentJob = NoJob
  /\ match = NoMatch
  /\ mutationReport = NoMutation.ats
  /\ generatedArtifacts = FALSE
  /\ automationStep = PENDING
  /\ logs = <<>>
  /\ isBulkActive = FALSE
  /\ bulkProgress = [current |-> 0, total |-> 0]
  /\ stopBulkRef = FALSE
  /\ risk = [level |-> "LOW", captchaCount |-> 0, domChangesDetected |-> FALSE,
             ipReputation |-> 98, isLocked |-> FALSE]
  /\ applications = <<>>
  /\ activeStrategy = "none"
  /\ tasks = {}
  /\ nextId = 1
  /\ faults = 0
  /\ ev = Event("init", NoTask)

\* App with a user signed in and the profile loaded, as it is when it renders
\* JobHunter
\* useState of App.tsx:19, 23 and 25-36
AgentInit ==
  /\ activeTab = "discover"
  /\ isCommandProcessing = FALSE
  /\ stateTasks = [roadmap |-> "idle", discovery |-> "idle"]
  /\ roadmap = Null

Init ==
  /\ JobHunterInit
  /\ app = "App"
  /\ session = TRUE
  /\ supabase = [profiles |-> Some(UpsertRow(UserProfile("Ada", profile.resumeTracks,
                                                        profile.matchThreshold))),
                 applications |-> <<>>]
  /\ error = ""
  /\ stateProfile = Some(UserProfile("Ada", profile.resumeTracks,
                                     profile.matchThreshold))
  /\ saved = Null
  /\ appTasks = {}
  /\ AgentInit

\* the state of the other revisions, and the props
others == <<component, profile, mutationReport, generatedArtifacts, app, session,
            supabase, error, stateProfile, saved, appTasks,
            activeTab, isCommandProcessing, stateTasks, roadmap>>

\* App's own state and the store
store == <<app, session, supabase, error, stateProfile, saved, appTasks,
           activeTab, isCommandProcessing, stateTasks, roadmap>>

\* the command agent of App.tsx: the tab shown, the busy flag of the
\* terminal, the background tasks and the roadmap
agent == <<activeTab, isCommandProcessing, stateTasks, roadmap>>

\* the id extractJobData draws for the job a task extracts
JobIdOf(t) == (IF t.kind = "runBulkDeployment" THEN 20 ELSE 10) + t.i + 1

Threshold(p) == IF p.matchThreshold # 0 THEN p.matchThreshold ELSE DefaultThreshold

PassesThreshold_nodefault(score, p) == score >= p.matchThreshold

PassesThreshold(score, p) == score >= Threshold(p)

LockGate_open(locked) == FALSE

\* the risk.isLocked disjunct of the entry guards
LockGate(locked) == locked

(* startAutomation, part_000:397-441 *)

startAutomation ==
  /\ component = "V3"
  /\ currentJob # NoJob /\ ~isProcessing /\ ~isBulkActive
  /\ LET t == NewTask("startAutomation") IN
     IF currentJob = NoJob \/ match = NoMatch \/ LockGate(risk.isLocked)
     THEN /\ ev' = Event("startAutomation", Returned(t))
          /\ UNCHANGED <<isProcessing, automationStep, tasks, nextId>>
     ELSE /\ CanStart
          /\ isProcessing' = TRUE
          /\ automationStep' = GENERATING_CL
          /\ tasks' = tasks \cup {Step(t, GENERATING_CL, "cl")}
          /\ nextId' = nextId + 1
          /\ ev' = Mid
  /\ logs' = <<>>
  /\ UNCHANGED <<others, faults, jobInput, isDiscovering, discoveredJobs, currentJob,
                 match, isBulkActive, bulkProgress, stopBulkRef, risk,
                 applications, activeStrategy>>

startAutomation_catch_silent(t0, t) ==
  /\ automationStep' = automationStep
  /\ isProcessing' = FALSE
  /\ tasks' = tasks \ {t0}
  /\ ev' = Event("startAutomation", [t EXCEPT !.pc = "failed", !.over = TRUE])

\* catch and finally of startAutomation; t0 is the task in flight, t the task
\* as it stands at the throw
startAutomation_catch(t0, t) ==
  /\ automationStep' = FAILED
  /\ isProcessing' = FALSE
  /\ tasks' = tasks \ {t0}
  /\ ev' = Event("startAutomation",
                 [t EXCEPT !.pc = "failed", !.over = TRUE,
                           !.trace = Append(@, FAILED)])

startAutomation_resume(t, kind) ==
  /\ component = "V3"
  /\ t.kind = "startAutomation"
  /\ CASE t.pc = "cl" ->
            LET r == generateCoverLetter(kind)
                t2 == Step([t EXCEPT !.cl = r.val], MUTATING_RESUME, "mut")
            IN IF r.ok
               THEN /\ automationStep' = MUTATING_RESUME
                    /\ tasks' = (tasks \ {t}) \cup {t2}
                    /\ ev' = Mid
                    /\ logs' = <<>>
                    /\ UNCHANGED <<isProcessing, jobInput, applications>>
               ELSE /\ startAutomation_catch(t, [t EXCEPT !.rejected = TRUE, !.msg = r.msg])
                    /\ logs' = <<>>
                    /\ UNCHANGED <<jobInput, applications>>
       [] t.pc = "mut" ->
            LET r == mutateResume(kind)
                t2 == Wait([t EXCEPT !.mutation = r.val], APPLYING, "delay")
            IN IF r.ok
               THEN /\ automationStep' = APPLYING
                    /\ logs' = addLog(<<>>, "HANDSHAKE", t.job.company)
                    /\ tasks' = (tasks \ {t}) \cup {t2}
                    /\ ev' = Mid
                    /\ UNCHANGED <<isProcessing, jobInput, applications>>
               ELSE /\ startAutomation_catch(t, [t EXCEPT !.rejected = TRUE, !.msg = r.msg])
                    /\ logs' = <<>>
                    /\ UNCHANGED <<jobInput, applications>>
       [] t.pc = "delay" ->
            LET r == generateDispatchProof(t.job, t.mutation.mutatedResume)
                t2 == Wait(t, VERIFYING, "proof")
            IN /\ kind = "json"
               /\ logs' = addLog(<<>>, "VERIFYING", "")
               /\ IF r.ok
                  THEN /\ automationStep' = VERIFYING
                       /\ tasks' = (tasks \ {t}) \cup {t2}
                       /\ ev' = Mid
                       /\ UNCHANGED <<isProcessing, jobInput, applications>>
                  ELSE /\ startAutomation_catch(t, [t2 EXCEPT !.threw = TRUE, !.msg = r.msg])
                       /\ UNCHANGED <<jobInput, applications>>
       [] t.pc = "proof" ->
            LET r == generateDispatchProof(t.job, t.mutation.mutatedResume)
                logEntry == ApplicationLog(t.job, t.cl, t.mutation, r.val)
            IN /\ kind = "json"
               /\ applications' = onApply(logEntry)
               /\ logs' = addLog(<<>>, "VERIFIED", r.val.dispatchHash)
               /\ automationStep' = COMPLETED
               /\ jobInput' = ""
               /\ isProcessing' = FALSE
               /\ tasks' = tasks \ {t}
               /\ ev' = Event("startAutomation",
                              [t EXCEPT !.pc = "done", !.over = TRUE, !.emitted = @ + 1,
                                        !.trace = Append(@, COMPLETED)])
  /\ faults' = Fault(kind)
  /\ UNCHANGED <<others, isDiscovering, discoveredJobs, currentJob, match,
                 isBulkActive, bulkProgress, stopBulkRef, risk, activeStrategy,
                 nextId>>

(* runBulkDeployment, part_000:443-501 *)

\* the loop of runBulkDeployment goes on to entry t.i: part_000:450-451
LoopContinues_unlocked(t) == t.i < Len(t.queue) /\ ~stopBulkRef /\ ~risk.isLocked

LoopContinues(t) == t.i < Len(t.queue) /\ ~stopBulkRef

\* bulkProgress.current as iteration i begins, part_000:454
Progress_index(i) == i

Progress(i) == i + 1

\* the head of the loop for the task t (t0 is the task as it is in flight): the
\* cancellation check, the progress update and the first call of iteration
\* t.i; or the code after the loop
runBulkDeployment_loop(t0, t, l, op) ==
  IF LoopContinues(t)
  THEN LET t2 == Step([t EXCEPT !.trace = <<>>, !.started = @ + 1, !.score = -1,
                                !.job = NoJob, !.cl = Undefined,
                                !.mutation = NoMutation, !.calls = 0,
                                !.rejected = FALSE, !.threw = FALSE,
                                !.msg = ""],
                      EXTRACTING, "extract")
       IN /\ bulkProgress' = [bulkProgress EXCEPT !.current = Progress(t.i)]
          /\ logs' = addLog(l, "DISPATCHING MISSION", t.queue[t.i + 1].title)
          /\ automationStep' = EXTRACTING
          /\ isBulkActive' = isBulkActive
          /\ tasks' = (tasks \ {t0}) \cup {t2}
          /\ ev' = Event("runBulkDeployment", [t EXCEPT !.pc = op])
  ELSE /\ isBulkActive' = FALSE
       /\ automationStep' = PENDING
       /\ logs' = l
       /\ bulkProgress' = bulkProgress
       /\ tasks' = tasks \ {t0}
       /\ ev' = Event("runBulkDeployment", [t EXCEPT !.pc = op, !.over = TRUE])

runBulkDeployment ==
  /\ component = "V3"
  /\ Len(discoveredJobs) > 0 /\ currentJob = NoJob /\ ~isProcessing /\ ~isBulkActive
  /\ LET t == NewTask("runBulkDeployment") IN
     IF Len(discoveredJobs) = 0 \/ LockGate(risk.isLocked) \/ isBulkActive
     THEN /\ ev' = Event("runBulkDeployment", Returned(t))
          /\ logs' = <<>>
          /\ UNCHANGED <<isBulkActive, bulkProgress, stopBulkRef,
                         automationStep, tasks, nextId>>
     ELSE /\ CanStart
          /\ stopBulkRef' = FALSE
          /\ nextId' = nextId + 1
          /\ LET t2 == Step([t EXCEPT !.started = 1], EXTRACTING, "extract") IN
             /\ isBulkActive' = TRUE
             /\ bulkProgress' = [current |-> Progress(0), total |-> Len(discoveredJobs)]
             /\ logs' = addLog(<<>>, "DISPATCHING MISSION", discoveredJobs[1].title)
             /\ automationStep' = EXTRACTING
             /\ tasks' = tasks \cup {t2}
             /\ ev' = Mid
  /\ UNCHANGED <<others, faults, jobInput, isProcessing, isDiscovering, discoveredJobs,
                 currentJob, match, risk, applications, activeStrategy>>

runBulkDeployment_catch_break(t0, t) ==
  /\ isBulkActive' = FALSE
  /\ automationStep' = PENDING
  /\ logs' = addLog(<<>>, "FAILED", t.queue[t.i + 1].company)
  /\ bulkProgress' = bulkProgress
  /\ tasks' = tasks \ {t0}
  /\ ev' = Event("runBulkDeployment",
                 [t EXCEPT !.pc = "iteration failed", !.failed = @ + 1, !.over = TRUE])

\* catch of one iteration, then the next iteration
runBulkDeployment_catch(t0, t) ==
  runBulkDeployment_loop(t0, [t EXCEPT !.i = @ + 1, !.failed = @ + 1],
    addLog(<<>>, "FAILED", t.queue[t.i + 1].company), "iteration failed")

runBulkDeployment_resume(t, kind, data, score) ==
  /\ component = "V3"
  /\ t.kind = "runBulkDeployment"
  /\ CASE t.pc = "extract" ->
            LET r == extractJobData(t.queue[t.i + 1].url, kind, data, JobIdOf(t))
                t2 == Step([t EXCEPT !.job = r.val], MATCHING, "match")
            IN IF r.ok
               THEN /\ automationStep' = MATCHING
                    /\ tasks' = (tasks \ {t}) \cup {t2}
                    /\ ev' = Mid
                    /\ logs' = <<>>
                    /\ UNCHANGED <<isBulkActive, bulkProgress, applications>>
               ELSE /\ runBulkDeployment_catch(t, [t EXCEPT !.rejected = TRUE, !.msg = r.msg])
                    /\ UNCHANGED applications
       [] t.pc = "match" ->
            LET r == calculateMatchScore(kind, score)
                t1 == [t EXCEPT !.score = r.val.score]
                t2 == Step(t1, MUTATING_RESUME, "mut")
            IN IF r.ok
               THEN IF PassesThreshold(r.val.score, profile)
                    THEN /\ automationStep' = MUTATING_RESUME
                         /\ tasks' = (tasks \ {t}) \cup {t2}
                         /\ ev' = Mid
                         /\ logs' = <<>>
                         /\ UNCHANGED <<isBulkActive, bulkProgress, applications>>
                    ELSE /\ runBulkDeployment_loop(t,
                              [t1 EXCEPT !.i = @ + 1, !.skipped = @ + 1], <<>>,
                              "iteration skipped")
                         /\ UNCHANGED applications
               ELSE /\ runBulkDeployment_catch(t, [t EXCEPT !.rejected = TRUE, !.msg = r.msg])
                    /\ UNCHANGED applications
       [] t.pc = "mut" ->
            LET r == mutateResume(kind)
                t2 == Step([t EXCEPT !.mutation = r.val], GENERATING_CL, "cl")
            IN IF r.ok
               THEN /\ automationStep' = GENERATING_CL
                    /\ tasks' = (tasks \ {t}) \cup {t2}
                    /\ ev' = Mid
                    /\ logs' = <<>>
                    /\ UNCHANGED <<isBulkActive, bulkProgress, applications>>
               ELSE /\ runBulkDeployment_catch(t, [t EXCEPT !.rejected = TRUE, !.msg = r.msg])
                    /\ UNCHANGED applications
       [] t.pc = "cl" ->
            LET r == generateCoverLetter(kind)
                t2 == Wait([t EXCEPT !.cl = r.val], APPLYING, "delay")
            IN IF r.ok
               THEN /\ automationStep' = APPLYING
                    /\ tasks' = (tasks \ {t}) \cup {t2}
                    /\ ev' = Mid
                    /\ logs' = <<>>
                    /\ UNCHANGED <<isBulkActive, bulkProgress, applications>>
               ELSE /\ runBulkDeployment_catch(t, [t EXCEPT !.rejected = TRUE, !.msg = r.msg])
                    /\ UNCHANGED applications
       [] t.pc = "delay" ->
            LET r == generateDispatchProof(t.job, t.mutation.mutatedResume)
                t2 == Wait(t, VERIFYING, "proof")
            IN /\ kind = "json"
               /\ IF r.ok
                  THEN /\ automationStep' = VERIFYING
                       /\ tasks' = (tasks \ {t}) \cup {t2}
                       /\ ev' = Mid
                       /\ logs' = <<>>
                       /\ UNCHANGED <<isBulkActive, bulkProgress, applications>>
                  ELSE /\ runBulkDeployment_catch(t, [t2 EXCEPT !.threw = TRUE, !.msg = r.msg])
                       /\ UNCHANGED applications
       [] t.pc = "proof" ->
            LET r == generateDispatchProof(t.job, t.mutation.mutatedResume)
                logEntry == ApplicationLog(t.job, t.cl, t.mutation, r.val)
            IN /\ kind = "json"
               /\ applications' = onApply(logEntry)
               /\ runBulkDeployment_loop(t,
                    [t EXCEPT !.i = @ + 1, !.emitted = @ + 1], <<>>, "iteration done")
  /\ faults' = Fault(kind)
  /\ UNCHANGED <<others, jobInput, isProcessing, isDiscovering, discoveredJobs,
                 currentJob, match, stopBulkRef, risk, activeStrategy, nextId>>

(* processJob and handleIngest, part_000:503-535 *)

\* the finally block of processJob: it reads automationStep from the closure
processJob_finally(cap, status) == IF cap = MATCHING THEN PENDING ELSE status

handleIngest(k) ==
  /\ component = "V3"
  /\ Len(discoveredJobs) > 0 /\ currentJob = NoJob /\ ~isProcessing
  /\ k \in 1..Len(discoveredJobs)
  /\ jobInput' = discoveredJobs[k].url
  /\ LET input == discoveredJobs[k].url
         t == [NewTask("processJob") EXCEPT !.input = input]
         t2 == Step(t, EXTRACTING, "extract")
     IN IF input = "" \/ LockGate(risk.isLocked)
        THEN /\ logs' = addLog(<<>>, "Ingesting", discoveredJobs[k].title)
             /\ ev' = Event("processJob", Returned(t))
             /\ UNCHANGED <<isProcessing, automationStep, tasks, nextId>>
        ELSE /\ CanStart
             /\ nextId' = nextId + 1
             /\ isProcessing' = TRUE
             /\ logs' = <<Line("Initiating job extraction", "")>>
             /\ automationStep' = EXTRACTING
             /\ tasks' = tasks \cup {t2}
             /\ ev' = Mid
  /\ UNCHANGED <<others, faults, isDiscovering, discoveredJobs, currentJob, match,
                 isBulkActive, bulkProgress, stopBulkRef, risk, applications,
                 activeStrategy>>

processJob_catch(t, msg) ==
  /\ logs' = addLog(<<>>, "Error processing job.", "")
  /\ automationStep' = processJob_finally(t.cap, FAILED)
  /\ isProcessing' = FALSE
  /\ tasks' = tasks \ {t}
  /\ ev' = Event("processJob",
                 [t EXCEPT !.pc = "failed", !.rejected = TRUE, !.over = TRUE, !.msg = msg,
                           !.trace = Append(@, FAILED)])

processJob_resume(t, kind, data, score) ==
  /\ component = "V3"
  /\ t.kind = "processJob"
  /\ CASE t.pc = "extract" ->
            LET r == extractJobData(t.input, kind, data, JobIdOf(t))
                t2 == Step([t EXCEPT !.job = r.val], MATCHING, "match")
            IN IF r.ok
               THEN /\ currentJob' = r.val
                    /\ logs' = addLog(<<>>, "Extracted", r.val.title)
                    /\ automationStep' = MATCHING
                    /\ tasks' = (tasks \ {t}) \cup {t2}
                    /\ ev' = Mid
                    /\ UNCHANGED <<match, isProcessing>>
               ELSE /\ processJob_catch(t, r.msg)
                    /\ UNCHANGED <<currentJob, match>>
       [] t.pc = "match" ->
            LET r == calculateMatchScore(kind, score)
            IN IF r.ok
               THEN /\ match' = r.val
                    /\ logs' = addLog(<<>>, "Match Score", "")
                    /\ automationStep' = processJob_finally(t.cap, automationStep)
                    /\ isProcessing' = FALSE
                    /\ tasks' = tasks \ {t}
                    /\ ev' = Event("processJob",
                                   [t EXCEPT !.pc = "done", !.over = TRUE,
                                             !.score = r.val.score])
                    /\ UNCHANGED currentJob
               ELSE /\ processJob_catch(t, r.msg)
                    /\ UNCHANGED <<currentJob, match>>
  /\ faults' = Fault(kind)
  /\ UNCHANGED <<others, jobInput, isDiscovering, discoveredJobs, isBulkActive,
                 bulkProgress, stopBulkRef, risk, applications, activeStrategy,
                 nextId>>

(* handleCommand, part_000:340-379 *)

Commands ==
  { [action |-> a, goal |-> ""] :
      a \in {"blocked", "pause", "resume", "strategy", "apply"} }
  \cup { [action |-> "strategy", goal |-> "land a staff role"] }

\* setRisk(prev => ({ ...prev, isLocked: b })), part_000:359-360
Locked_level(r, b) ==
  [r EXCEPT !.isLocked = b, !.level = IF b THEN "HIGH" ELSE "LOW"]

Locked(r, b) == [r EXCEPT !.isLocked = b]

\* the commands that move the risk gate
LockCommands == {c \in Commands : c.action \in {"pause", "resume"}}

handleCommand(cmd) ==
  /\ component = "V3"
  /\ CanStart
  /\ nextId' = nextId + 1
  /\ LET l == addLog(<<>>, "COMMAND RECEIVED", cmd.action)
         t == NewTask("handleCommand")
     IN CASE cmd.action = "blocked" ->
               /\ logs' = addLog(l, "COMMAND FAILED", "")
               /\ ev' = Event("blocked", NoTask)
               /\ UNCHANGED <<automationStep, risk, isDiscovering, tasks>>
          [] cmd.action = "strategy" /\ cmd.goal # "" ->
               /\ automationStep' = STRATEGIZING
               /\ logs' = addLog(l, "ASM INITIATING", "")
               /\ tasks' = tasks \cup {Step(t, STRATEGIZING, "plan")}
               /\ ev' = Mid
               /\ UNCHANGED <<risk, isDiscovering>>
          [] cmd.action = "pause" ->
               /\ risk' = Locked(risk, TRUE)
               /\ logs' = addLog(l, "SYSTEM PAUSED", "")
               /\ ev' = Event("pause", NoTask)
               /\ UNCHANGED <<automationStep, isDiscovering, tasks>>
          [] cmd.action = "resume" ->
               /\ risk' = Locked(risk, FALSE)
               /\ logs' = addLog(l, "SYSTEM RESUMED", "")
               /\ ev' = Event("resume", NoTask)
               /\ UNCHANGED <<automationStep, isDiscovering, tasks>>
          [] cmd.action \in {"apply", "filter"} ->
               /\ isDiscovering' = TRUE
               /\ logs' = l
               /\ tasks' = tasks \cup {[t EXCEPT !.pc = "search", !.calls = 1]}
               /\ ev' = Mid
               /\ UNCHANGED <<automationStep, risk>>
          [] OTHER ->
               /\ logs' = l
               /\ ev' = Event(cmd.action, NoTask)
               /\ UNCHANGED <<automationStep, risk, isDiscovering, tasks>>
  /\ UNCHANGED <<others, faults, jobInput, isProcessing, discoveredJobs, currentJob,
                 match, isBulkActive, bulkProgress, stopBulkRef, applications,
                 activeStrategy>>

\* the finally block of the strategy branch, part_000:353-355
handleCommand_finally_keep(status) == status

handleCommand_finally(status) == PENDING

handleCommand_resume(t, kind, n) ==
  /\ component = "V3"
  /\ t.kind = "handleCommand"
  /\ tasks' = tasks \ {t}
  /\ CASE t.pc = "plan" ->
            LET r == createStrategyPlan(kind) IN
            /\ activeStrategy' = IF r.ok THEN r.val ELSE activeStrategy
            /\ logs' = IF r.ok /\ r.val = "plan"
                       THEN addLog(<<>>, "STRATEGY DEPLOYED", "")
                       ELSE addLog(<<>>, "STRATEGY ERROR",
                                   IF r.ok THEN "TypeError" ELSE r.msg)
            /\ automationStep' = handleCommand_finally(automationStep)
            /\ ev' = Event("strategy",
                           [t EXCEPT !.pc = IF r.ok THEN "done" ELSE "failed",
                                     !.rejected = ~r.ok, !.over = TRUE,
                                     !.trace = Append(@, PENDING)])
            /\ UNCHANGED <<discoveredJobs, isDiscovering>>
       [] t.pc = "search" ->
            LET r == searchJobs(kind, n) IN
            /\ discoveredJobs' = IF r.ok THEN r.val ELSE discoveredJobs
            /\ logs' = IF r.ok THEN addLog(<<>>, "FOUND", "")
                       ELSE addLog(<<>>, "DISCOVERY ERROR", "")
            /\ isDiscovering' = FALSE
            /\ ev' = Event("search",
                           [t EXCEPT !.pc = IF r.ok THEN "done" ELSE "failed",
                                     !.rejected = ~r.ok, !.over = TRUE])
            /\ UNCHANGED <<automationStep, activeStrategy>>
  /\ faults' = Fault(kind)
  /\ UNCHANGED <<others, jobInput, isProcessing, currentJob, match,
                 isBulkActive, bulkProgress, stopBulkRef, risk, applications,
                 nextId>>

(* discoverJobs, part_000:381-395 *)

discoverJobs ==
  /\ component = "V3"
  /\ ~isDiscovering /\ ~isBulkActive
  /\ LET t == NewTask("discoverJobs") IN
     IF LockGate(risk.isLocked)
     THEN /\ logs' = addLog(<<>>, "OPERATION BLOCKED", "High risk of detection.")
          /\ ev' = Event("discoverJobs", Returned(t))
          /\ UNCHANGED <<isDiscovering, discoveredJobs, tasks, nextId>>
     ELSE /\ CanStart
          /\ nextId' = nextId + 1
          /\ isDiscovering' = TRUE
          /\ discoveredJobs' = <<>>
          /\ logs' = addLog(<<>>, "Initiating wide-net web crawl", "")
          /\ tasks' = tasks \cup {[t EXCEPT !.pc = "search", !.calls = 1]}
          /\ ev' = Mid
  /\ UNCHANGED <<others, faults, jobInput, isProcessing, currentJob, match,
                 automationStep, isBulkActive, bulkProgress, stopBulkRef, risk,
                 applications, activeStrategy>>

discoverJobs_resume(t, kind, n) ==
  /\ component = "V3"
  /\ t.kind = "discoverJobs"
  /\ LET r == searchJobs(kind, n) IN
     /\ discoveredJobs' = IF r.ok THEN r.val ELSE discoveredJobs
     /\ logs' = IF r.ok THEN addLog(<<>>, "SUCCESS: Staged", "")
                ELSE addLog(<<>>, "Discovery Error", "")
     /\ isDiscovering' = FALSE
     /\ tasks' = tasks \ {t}
     /\ ev' = Event("discoverJobs",
                    [t EXCEPT !.pc = IF r.ok THEN "done" ELSE "failed",
                              !.rejected = ~r.ok, !.over = TRUE])
  /\ faults' = Fault(kind)
  /\ UNCHANGED <<others, jobInput, isProcessing, currentJob, match,
                 automationStep, isBulkActive, bulkProgress, stopBulkRef, risk,
                 applications, activeStrategy, nextId>>

(* the Discard and Override buttons, part_000:681 and part_000:603 *)

Discard ==
  /\ component = "V3"
  /\ currentJob # NoJob /\ ~isProcessing /\ ~isBulkActive
  /\ currentJob' = NoJob
  /\ logs' = <<>>
  /\ automationStep' = PENDING
  /\ ev' = Event("Discard", NoTask)
  /\ UNCHANGED <<others, faults, jobInput, isProcessing, isDiscovering, discoveredJobs,
                 match, isBulkActive, bulkProgress, stopBulkRef, risk, applications,
                 activeStrategy, tasks, nextId>>

Override ==
  /\ component = "V3"
  /\ risk.isLocked
  /\ risk' = [risk EXCEPT !.isLocked = FALSE]
  /\ ev' = Event("Override", NoTask)
  /\ logs' = <<>>
  /\ UNCHANGED <<others, faults, jobInput, isProcessing, isDiscovering, discoveredJobs,
                 currentJob, match, automationStep, isBulkActive, bulkProgress,
                 stopBulkRef, applications, activeStrategy, tasks, nextId>>

-----------------------------------------------------------------------------
(* JobHunter, components/JobHunter.tsx, and the revision of part_001, which *)
(* shares processInput with it                                              *)

\* what the user can type into the input field
TypedInputs == {"https://acme.example/jobs/1", "HTTPS://ACME.EXAMPLE/JOBS/9",
                "staff engineer", "   "}

\* target.toLowerCase().startsWith('http')
isUrl(s) == startsWithHttp(s) \/ s = "HTTPS://ACME.EXAMPLE/JOBS/9"

\* the state of the revision of part_000
v3only == <<isDiscovering, isBulkActive, bulkProgress, stopBulkRef, risk,
            activeStrategy>>

\* onChange of the input field
setJobInput(v) ==
  /\ component \in {"Hunter", "Tailor"}
  /\ v # jobInput
  /\ jobInput' = v
  /\ logs' = <<>>
  /\ ev' = Event("setJobInput", NoTask)
  /\ UNCHANGED <<others, v3only, faults, isProcessing, discoveredJobs, currentJob,
                 match, automationStep, applications, tasks, nextId>>

\* the finally block of processInput: it reads automationStep from the closure
processInput_finally(cap, status) == IF cap # FAILED THEN PENDING ELSE status

\* processInput up to its first await, for the input target; newInput is the
\* value a setJobInput of the same event handler gives jobInput
processInput_body(target, newInput) ==
  LET t == [NewTask("processInput") EXCEPT !.input = target]
      status == IF isUrl(target) THEN EXTRACTING ELSE STRATEGIZING
  IN /\ jobInput' = newInput
     /\ IF trimIsEmpty(target)
        THEN /\ ev' = Event("processInput", Returned(t))
             /\ logs' = <<>>
             /\ UNCHANGED <<isProcessing, match, mutationReport, generatedArtifacts,
                            automationStep, tasks, nextId>>
        ELSE /\ CanStart
             /\ nextId' = nextId + 1
             /\ isProcessing' = TRUE
             /\ match' = NoMatch
             /\ mutationReport' = NoMutation.ats
             /\ generatedArtifacts' = FALSE
             /\ automationStep' = status
             /\ logs' = <<Line(IF isUrl(target) THEN "Analyzing" ELSE "Searching", target)>>
             /\ tasks' = tasks \cup
                          {Step(t, status, IF isUrl(target) THEN "extract" ELSE "search")}
             /\ ev' = Mid
     /\ UNCHANGED <<store, component, profile, v3only, faults, discoveredJobs, currentJob,
                    applications>>

\* the Enter key and the Search button of JobHunter.tsx
JH_processInput ==
  /\ component = "Hunter"
  /\ processInput_body(jobInput, jobInput)

\* a click on a discovered job: setJobInput(job.url); processInput()
JH_pick(k) ==
  /\ component = "Hunter"
  /\ Len(discoveredJobs) > 0 /\ currentJob = NoJob
  /\ k \in 1..Len(discoveredJobs)
  /\ processInput_body(jobInput, discoveredJobs[k].url)

\* the Enter key and the Search button of part_001
P1_processInput ==
  /\ component = "Tailor"
  /\ processInput_body(jobInput, jobInput)

\* a click on a discovered job: setJobInput(job.url); processInput(job.url)
P1_pick(k) ==
  /\ component = "Tailor"
  /\ Len(discoveredJobs) > 0 /\ currentJob = NoJob
  /\ k \in 1..Len(discoveredJobs)
  /\ processInput_body(discoveredJobs[k].url, discoveredJobs[k].url)

P1_Commands ==
  { [action |-> "find_gigs", goal |-> ""], [action |-> "status", goal |-> ""],
    [action |-> "apply", goal |-> "staff engineer"] }

(* handleCommand, part_001:85-97 *)
P1_handleCommand(cmd) ==
  /\ component = "Tailor"
  /\ IF cmd.action # "find_gigs" /\ cmd.goal # ""
     THEN processInput_body(cmd.goal, cmd.goal)
     ELSE /\ logs' = <<Line("Command", cmd.action)>>
          /\ ev' = Event("handleCommand", NoTask)
          /\ UNCHANGED <<others, v3only, faults, jobInput, isProcessing,
                         discoveredJobs, currentJob, match, automationStep,
                         applications, tasks, nextId>>

processInput_catch(t, msg) ==
  /\ logs' = addLog(<<>>, "SYSTEM ERROR", msg)
  /\ automationStep' = processInput_finally(t.cap, FAILED)
  /\ isProcessing' = FALSE
  /\ tasks' = tasks \ {t}
  /\ ev' = Event("processInput",
                 [t EXCEPT !.pc = "failed", !.rejected = TRUE, !.over = TRUE, !.msg = msg,
                           !.trace = Append(@, FAILED)])

processInput_resume(t, kind, data, score, n) ==
  /\ component \in {"Hunter", "Tailor"}
  /\ t.kind = "processInput"
  /\ CASE t.pc = "extract" ->
            LET r == extractJobData(t.input, kind, data, JobIdOf(t))
                t2 == Step([t EXCEPT !.job = r.val], MATCHING, "match")
            IN IF r.ok
               THEN /\ currentJob' = r.val
                    /\ logs' = addLog(<<>>, "Identified", r.val.title)
                    /\ automationStep' = MATCHING
                    /\ tasks' = (tasks \ {t}) \cup {t2}
                    /\ ev' = Mid
                    /\ UNCHANGED <<match, isProcessing, discoveredJobs>>
               ELSE /\ processInput_catch(t, r.msg)
                    /\ UNCHANGED <<currentJob, match, discoveredJobs>>
       [] t.pc = "match" ->
            LET r == calculateMatchScore(kind, score)
            IN IF r.ok
               THEN /\ match' = r.val
                    /\ logs' = addLog(<<>>, "Match Confirmed", "")
                    /\ automationStep' = processInput_finally(t.cap, automationStep)
                    /\ isProcessing' = FALSE
                    /\ tasks' = tasks \ {t}
                    /\ ev' = Event("processInput",
                                   [t EXCEPT !.pc = "done", !.over = TRUE,
                                             !.score = r.val.score])
                    /\ UNCHANGED <<currentJob, discoveredJobs>>
               ELSE /\ processInput_catch(t, r.msg)
                    /\ UNCHANGED <<currentJob, match, discoveredJobs>>
       [] t.pc = "search" ->
            LET r == searchJobs(kind, n)
            IN IF r.ok
               THEN /\ discoveredJobs' = r.val
                    /\ logs' = addLog(<<>>, "Discovered", "")
                    /\ automationStep' = processInput_finally(t.cap, automationStep)
                    /\ isProcessing' = FALSE
                    /\ tasks' = tasks \ {t}
                    /\ ev' = Event("processInput", [t EXCEPT !.pc = "done", !.over = TRUE])
                    /\ UNCHANGED <<currentJob, match>>
               ELSE /\ processInput_catch(t, r.msg)
                    /\ UNCHANGED <<currentJob, match, discoveredJobs>>
  /\ faults' = Fault(kind)
  /\ UNCHANGED <<others, v3only, jobInput, applications, nextId>>

(* startAutomation, JobHunter.tsx:108-177 *)

\* the proof object built inline: new URL(applyUrl) and, in the receipt,
\* job.company.substring throw
JH_proof(job) ==
  IF UrlParses(job.applyUrl) /\ job.company # Undefined
  THEN Ok([dispatchHash |-> "TXN", serverStatusCode |-> 201])
  ELSE [ok |-> FALSE, val |-> NoProof, msg |-> "TypeError"]

JH_startAutomation ==
  /\ component = "Hunter"
  /\ currentJob # NoJob /\ ~isProcessing
  /\ LET t == NewTask("JH_startAutomation") IN
     IF currentJob = NoJob \/ isProcessing
     THEN /\ ev' = Event("JH_startAutomation", Returned(t))
          /\ logs' = <<>>
          /\ UNCHANGED <<isProcessing, automationStep, tasks, nextId>>
     ELSE /\ CanStart
          /\ nextId' = nextId + 1
          /\ isProcessing' = TRUE
          /\ automationStep' = GENERATING_CL
          /\ logs' = addLog(<<>>, "Synthesizing", "")
          /\ tasks' = tasks \cup {Step(t, GENERATING_CL, "cl")}
          /\ ev' = Mid
  /\ UNCHANGED <<others, v3only, faults, jobInput, discoveredJobs, currentJob, match,
                 applications>>

JH_startAutomation_catch(t0, t) ==
  /\ logs' = addLog(<<>>, "DISPATCH FAILED", t.msg)
  /\ automationStep' = FAILED
  /\ isProcessing' = FALSE
  /\ tasks' = tasks \ {t0}
  /\ ev' = Event("JH_startAutomation",
                 [t EXCEPT !.pc = "failed", !.over = TRUE,
                           !.trace = Append(@, FAILED)])

JH_startAutomation_resume(t, kind) ==
  /\ component = "Hunter"
  /\ t.kind = "JH_startAutomation"
  /\ t.pc \in {"cl", "mut", "delay"}
  /\ CASE t.pc = "cl" ->
            LET r == generateCoverLetter(kind)
                t2 == Step([t EXCEPT !.cl = r.val], MUTATING_RESUME, "mut")
            IN IF r.ok
               THEN /\ automationStep' = MUTATING_RESUME
                    /\ logs' = addLog(<<>>, "Commencing Atomic Mutation", "")
                    /\ tasks' = (tasks \ {t}) \cup {t2}
                    /\ ev' = Mid
                    /\ UNCHANGED <<isProcessing, mutationReport, applications>>
               ELSE /\ JH_startAutomation_catch(t, [t EXCEPT !.rejected = TRUE, !.msg = r.msg])
                    /\ UNCHANGED <<mutationReport, applications>>
       [] t.pc = "mut" ->
            LET r == mutateResume(kind)
                t2 == Wait([t EXCEPT !.mutation = r.val], APPLYING, "delay")
            IN IF r.ok
               THEN /\ mutationReport' = r.val.ats
                    /\ automationStep' = APPLYING
                    /\ logs' = addLog(<<>>, "Dispatching", "")
                    /\ tasks' = (tasks \ {t}) \cup {t2}
                    /\ ev' = Mid
                    /\ UNCHANGED <<isProcessing, applications>>
               ELSE /\ JH_startAutomation_catch(t, [t EXCEPT !.rejected = TRUE, !.msg = r.msg])
                    /\ UNCHANGED <<mutationReport, applications>>
       [] t.pc = "delay" ->
            LET r == JH_proof(t.job)
                t2 == Wait(t, VERIFYING, "timer")
                logEntry == ApplicationLog(t.job, t.cl, t.mutation, r.val)
                done == [t2 EXCEPT !.over = TRUE, !.emitted = @ + 1,
                                   !.trace = Append(@, COMPLETED)]
            IN /\ kind = "json"
               /\ IF r.ok
                  THEN /\ applications' = onApply(logEntry)
                       /\ automationStep' = COMPLETED
                       /\ logs' = addLog(<<>>, "SUCCESS", "")
                       /\ isProcessing' = FALSE
                       /\ tasks' = (tasks \ {t}) \cup {done}
                       /\ ev' = Event("JH_startAutomation", [done EXCEPT !.pc = "done"])
                       /\ UNCHANGED mutationReport
                  ELSE /\ JH_startAutomation_catch(t, [t2 EXCEPT !.threw = TRUE, !.msg = r.msg])
                       /\ UNCHANGED <<mutationReport, applications>>
  /\ faults' = Fault(kind)
  /\ UNCHANGED <<store, component, profile, generatedArtifacts, v3only, jobInput,
                 discoveredJobs, currentJob, match, nextId>>

\* the callback of the setTimeout of 3000 ms, JobHunter.tsx:165-170
JH_timer(t) ==
  /\ component = "Hunter"
  /\ t.kind = "JH_startAutomation" /\ t.pc = "timer"
  /\ currentJob' = NoJob
  /\ automationStep' = PENDING
  /\ mutationReport' = NoMutation.ats
  /\ jobInput' = ""
  /\ logs' = <<>>
  /\ tasks' = tasks \ {t}
  /\ ev' = Event("timer", [t EXCEPT !.trace = Append(@, PENDING)])
  /\ UNCHANGED <<store, component, profile, generatedArtifacts, v3only, faults,
                 isProcessing, discoveredJobs, match, applications, nextId>>

\* the close button, JobHunter.tsx:299
JH_close ==
  /\ component = "Hunter"
  /\ currentJob # NoJob /\ ~isProcessing
  /\ currentJob' = NoJob
  /\ match' = NoMatch
  /\ logs' = <<>>
  /\ ev' = Event("close", NoTask)
  /\ UNCHANGED <<others, v3only, faults, jobInput, isProcessing, discoveredJobs,
                 automationStep, applications, tasks, nextId>>

(* startTailoring, part_001:99-133 *)

P1_startTailoring ==
  /\ component = "Tailor"
  /\ currentJob # NoJob /\ ~generatedArtifacts /\ ~isProcessing
  /\ LET t == NewTask("startTailoring") IN
     IF currentJob = NoJob \/ isProcessing
     THEN /\ ev' = Event("startTailoring", Returned(t))
          /\ UNCHANGED <<isProcessing, automationStep, tasks, nextId>>
     ELSE /\ CanStart
          /\ nextId' = nextId + 1
          /\ isProcessing' = TRUE
          /\ automationStep' = GENERATING_CL
          /\ tasks' = tasks \cup {Step(t, GENERATING_CL, "cl")}
          /\ ev' = Mid
  /\ logs' = <<>>
  /\ UNCHANGED <<others, v3only, faults, jobInput, discoveredJobs, currentJob, match,
                 applications>>

P1_startTailoring_catch(t, msg) ==
  /\ logs' = addLog(<<>>, "Tailoring Failed", msg)
  /\ automationStep' = FAILED
  /\ isProcessing' = FALSE
  /\ tasks' = tasks \ {t}
  /\ ev' = Event("startTailoring",
                 [t EXCEPT !.pc = "failed", !.rejected = TRUE, !.over = TRUE, !.msg = msg,
                           !.trace = Append(@, FAILED)])

P1_startTailoring_resume(t, kind) ==
  /\ component = "Tailor"
  /\ t.kind = "startTailoring"
  /\ CASE t.pc = "cl" ->
            LET r == generateCoverLetter(kind)
                t2 == Step([t EXCEPT !.cl = r.val], MUTATING_RESUME, "mut")
            IN IF r.ok
               THEN /\ automationStep' = MUTATING_RESUME
                    /\ logs' = <<>>
                    /\ tasks' = (tasks \ {t}) \cup {t2}
                    /\ ev' = Mid
                    /\ UNCHANGED <<isProcessing, generatedArtifacts, applications>>
               ELSE /\ P1_startTailoring_catch(t, r.msg)
                    /\ UNCHANGED <<generatedArtifacts, applications>>
       [] t.pc = "mut" ->
            LET r == mutateResume(kind)
                logEntry == ApplicationLog(t.job, t.cl, r.val, NoProof)
            IN IF r.ok
               THEN /\ generatedArtifacts' = TRUE
                    /\ applications' = onApply(logEntry)
                    /\ automationStep' = COMPLETED
                    /\ logs' = addLog(<<>>, "Package ready!", "")
                    /\ isProcessing' = FALSE
                    /\ tasks' = tasks \ {t}
                    /\ ev' = Event("startTailoring",
                                   [t EXCEPT !.pc = "done", !.over = TRUE,
                                             !.mutation = r.val, !.emitted = @ + 1,
                                             !.trace = @ \o <<VERIFYING, COMPLETED>>])
               ELSE /\ P1_startTailoring_catch(t, r.msg)
                    /\ UNCHANGED <<generatedArtifacts, applications>>
  /\ faults' = Fault(kind)
  /\ UNCHANGED <<store, component, profile, mutationReport, v3only, jobInput,
                 discoveredJobs, currentJob, match, nextId>>

\* the close button, part_001:186
P1_close ==
  /\ component = "Tailor"
  /\ currentJob # NoJob
  /\ currentJob' = NoJob
  /\ generatedArtifacts' = FALSE
  /\ logs' = <<>>
  /\ ev' = Event("close", NoTask)
  /\ UNCHANGED <<store, component, profile, mutationReport, v3only, faults, jobInput,
                 isProcessing, discoveredJobs, match, automationStep, applications,
                 tasks, nextId>>

-----------------------------------------------------------------------------
(* App: the session and the store. fetchCloudData and handleUpdateProfile   *)
(* of App.tsx:47-131; handleNewApplication of README.md:214-248 and of      *)
(* part_002:120-143                                                         *)

AppRevisions == {"App", "README", "P2"}

\* what a request to the store comes to: data, an error object with the code
\* PGRST204 or with another code, or a rejected promise
Outcomes == {"ok", "PGRST204", "error", "throw"}

\* the outcomes other than data, while the store may still fail
StoreFaulty == IF faults < MaxFaults THEN Outcomes \ {"ok"} ELSE {}

\* the logs JobHunter hands to onApply
AppLogs ==
  {ApplicationLog([id |-> k, title |-> "Engineer", company |-> "Acme",
                   applyUrl |-> "https://acme.example/jobs/1"],
                  "letter", [mutatedResume |-> "mutated", ats |-> 88], NoProof) :
     k \in 1..2}

NoLog == ApplicationLog(NoJob, Undefined, NoMutation, NoProof)

\* an entry of state.applications: the log, with the id of its row once the
\* store has answered (0: the id JobHunter gave it)
Entry(log, id) == [log |-> log, id |-> id]

\* a handler of App in flight
AppTask(kind, pc) ==
  [id |-> nextId, kind |-> kind, pc |-> pc, log |-> NoLog, profile |-> Null,
   row |-> Null,                  \* profileData of fetchCloudData
   began |-> Null,                \* the saved profile the row read stands for
   outcome |-> "none",            \* what the last request came to
   warned |-> FALSE,              \* console.error was called
   added |-> FALSE]               \* the log went into state.applications

StoreFault(outcome) == faults + (IF outcome = "ok" THEN 0 ELSE 1)

\* the rows of applications, newest first, as entries: App.tsx:71, 84-98
AppsFromRows(rows) ==
  [i \in 1..Len(rows) |-> Entry(rows[Len(rows) + 1 - i].log, rows[Len(rows) + 1 - i].id)]

jobHunter == <<component, profile, jobInput, isProcessing, isDiscovering,
               discoveredJobs, currentJob, match, mutationReport,
               generatedArtifacts, automationStep, logs, isBulkActive,
               bulkProgress, stopBulkRef, risk, activeStrategy, tasks>>

\* the Auth screen signs a user in: onAuthStateChange sets the session and the
\* effect on [session] calls fetchCloudData, which awaits the profile row
signIn ==
  /\ app = "App"
  /\ ~session
  /\ CanStart
  /\ session' = TRUE
  /\ appTasks' = appTasks \cup {AppTask("fetchCloudData", "profiles")}
  /\ nextId' = nextId + 1
  /\ ev' = Event("signIn", NoTask)
  /\ UNCHANGED <<jobHunter, agent, applications, faults, app, supabase, error,
                 stateProfile, saved>>

\* onLogout, App.tsx:191
signOut ==
  /\ app = "App"
  /\ session
  /\ session' = FALSE
  /\ ev' = Event("signOut", NoTask)
  /\ UNCHANGED <<jobHunter, agent, applications, faults, nextId, app, supabase, error,
                 stateProfile, saved, appTasks>>

\* the page is loaded again with the session kept: App is constructed anew,
\* App.tsx:18-36, and getSession restores the session, App.tsx:38-47
reload ==
  /\ app = "App"
  /\ session
  /\ appTasks = {}
  /\ CanStart
  /\ stateProfile' = Null
  /\ applications' = <<>>
  /\ error' = ""
  /\ appTasks' = {AppTask("fetchCloudData", "profiles")}
  /\ nextId' = nextId + 1
  /\ activeTab' = "discover"
  /\ isCommandProcessing' = FALSE
  /\ stateTasks' = [roadmap |-> "idle", discovery |-> "idle"]
  /\ roadmap' = Null
  /\ ev' = Event("reload", NoTask)
  /\ UNCHANGED <<jobHunter, faults, app, session, supabase, saved>>

\* the catch of fetchCloudData, App.tsx:99-101
fetchCloudData_catch(t, outcome) ==
  /\ error' = "Cloud Sync Issue"
  /\ appTasks' = appTasks \ {t}
  /\ ev' = Event("fetchCloudData", [t EXCEPT !.pc = "failed", !.outcome = outcome])
  /\ UNCHANGED <<supabase, stateProfile, applications>>

fetchCloudData_resume(t, outcome) ==
  /\ app = "App"
  /\ t.kind = "fetchCloudData"
  /\ IF outcome = "throw"
     THEN fetchCloudData_catch(t, outcome)
     ELSE CASE t.pc = "profiles" ->
                 LET profileData == IF outcome = "ok" THEN supabase.profiles ELSE Null
                     t2 == [t EXCEPT !.row = profileData, !.outcome = outcome,
                                     !.began = IF outcome = "ok" THEN saved ELSE Null,
                                     !.pc = IF profileData = Null THEN "insert"
                                            ELSE "applications"]
                 IN /\ appTasks' = (appTasks \ {t}) \cup {t2}
                    /\ ev' = Mid
                    /\ UNCHANGED <<supabase, stateProfile, applications, error>>
            [] t.pc = "insert" ->
                 LET created == IF outcome = "ok" /\ supabase.profiles = Null
                                THEN Some(InitialRow) ELSE Null
                     t2 == [t EXCEPT !.row = created, !.outcome = outcome,
                                     !.pc = "applications"]
                 IN /\ supabase' = IF created = Null THEN supabase
                                   ELSE [supabase EXCEPT !.profiles = created]
                    /\ appTasks' = (appTasks \ {t}) \cup {t2}
                    /\ ev' = Mid
                    /\ UNCHANGED <<stateProfile, applications, error>>
            [] t.pc = "applications" ->
                 LET appsData == IF outcome = "ok" THEN supabase.applications ELSE <<>>
                 IN IF t.row = Null
                    THEN fetchCloudData_catch(t, outcome)
                    ELSE /\ stateProfile' = Some(FromRow(t.row[1]))
                         /\ applications' = AppsFromRows(appsData)
                         /\ appTasks' = appTasks \ {t}
                         /\ ev' = Event("fetchCloudData",
                                        [t EXCEPT !.pc = "done", !.outcome = outcome])
                         /\ UNCHANGED <<supabase, error>>
  /\ faults' = StoreFault(outcome)
  /\ UNCHANGED <<jobHunter, agent, nextId, app, session, saved>>

\* ProfileEditor's onSave, App.tsx:113-131 up to the await
handleUpdateProfile(newProfile) ==
  /\ app = "App"
  /\ session /\ stateProfile # Null
  /\ CanStart
  /\ stateProfile' = Some(newProfile)
  /\ appTasks' = appTasks \cup
                   {[AppTask("handleUpdateProfile", "upsert") EXCEPT
                       !.profile = Some(newProfile)]}
  /\ nextId' = nextId + 1
  /\ ev' = Mid
  /\ UNCHANGED <<jobHunter, agent, applications, faults, app, session, supabase, error,
                 saved>>

\* the upsert settles: its result is not read; a rejection is caught
handleUpdateProfile_resume(t, outcome) ==
  /\ app = "App"
  /\ t.kind = "handleUpdateProfile"
  /\ outcome # "PGRST204"
  /\ supabase' = IF outcome = "ok"
                 THEN [supabase EXCEPT !.profiles = Some(UpsertRow(t.profile[1]))]
                 ELSE supabase
  /\ saved' = IF outcome = "ok" THEN t.profile ELSE saved
  /\ error' = IF outcome = "throw" THEN "Profile Update Failed" ELSE error
  /\ appTasks' = appTasks \ {t}
  /\ faults' = StoreFault(outcome)
  /\ ev' = Event("handleUpdateProfile", [t EXCEPT !.pc = "done", !.outcome = outcome])
  /\ UNCHANGED <<jobHunter, agent, applications, nextId, app, session, stateProfile>>

\* onApply of README.md:271 and part_002:171, up to the await of the insert
handleNewApplication(log) ==
  /\ app \in {"README", "P2"}
  /\ session
  /\ CanStart
  /\ appTasks' = appTasks \cup
                   {[AppTask("handleNewApplication", "insert") EXCEPT !.log = log]}
  /\ nextId' = nextId + 1
  /\ ev' = Mid
  /\ UNCHANGED <<jobHunter, agent, applications, faults, app, session, supabase, error,
                 stateProfile, saved>>

\* the row the store adds, with the id it gives
NewRow(log) == [id |-> Len(supabase.applications) + 1, log |-> log]

\* README.md:232-247
RD_handleNewApplication_resume(t, outcome) ==
  /\ app = "README"
  /\ t.kind = "handleNewApplication"
  /\ CASE outcome = "ok" ->
            /\ supabase' = [supabase EXCEPT !.applications = Append(@, NewRow(t.log))]
            /\ applications' = <<Entry(t.log, NewRow(t.log).id)>> \o applications
            /\ error' = error
            /\ ev' = Event("handleNewApplication",
                           [t EXCEPT !.pc = "done", !.outcome = outcome, !.added = TRUE])
       [] outcome = "PGRST204" ->
            /\ applications' = <<Entry(t.log, 0)>> \o applications
            /\ ev' = Event("handleNewApplication",
                           [t EXCEPT !.pc = "done", !.outcome = outcome,
                                     !.warned = TRUE, !.added = TRUE])
            /\ UNCHANGED <<supabase, error>>
       [] OTHER ->
            /\ error' = "Database Error"
            /\ ev' = Event("handleNewApplication",
                           [t EXCEPT !.pc = "failed", !.outcome = outcome])
            /\ UNCHANGED <<supabase, applications>>
  /\ appTasks' = appTasks \ {t}
  /\ faults' = StoreFault(outcome)
  /\ UNCHANGED <<jobHunter, agent, nextId, app, session, stateProfile, saved>>

\* part_002:137-142; a rejected insert is caught nowhere
P2_handleNewApplication_resume(t, outcome) ==
  /\ app = "P2"
  /\ t.kind = "handleNewApplication"
  /\ IF outcome = "ok"
     THEN /\ supabase' = [supabase EXCEPT !.applications = Append(@, NewRow(t.log))]
          /\ applications' = applications \o <<Entry(t.log, NewRow(t.log).id)>>
          /\ ev' = Event("handleNewApplication",
                         [t EXCEPT !.pc = "done", !.outcome = outcome, !.added = TRUE])
     ELSE /\ ev' = Event("handleNewApplication",
                         [t EXCEPT !.pc = "failed", !.outcome = outcome])
          /\ UNCHANGED <<supabase, applications>>
  /\ appTasks' = appTasks \ {t}
  /\ faults' = StoreFault(outcome)
  /\ UNCHANGED <<jobHunter, agent, nextId, app, session, error, stateProfile, saved>>

\* the Dismiss button of the banner, README.md:259
dismiss ==
  /\ app = "README"
  /\ error # ""
  /\ error' = ""
  /\ ev' = Event("dismiss", NoTask)
  /\ UNCHANGED <<jobHunter, agent, applications, faults, nextId, app, session, supabase,
                 stateProfile, saved, appTasks>>

(* CommandTerminal's call of interpretCommand, in either revision of the   *)
(* service                                                                   *)

GeminiRevisions == {"gemini.ts", "part_003"}

\* the texts typed into the terminal
TerminalInputs == {"pause everything", "asdf"}

\* a call of interpretCommand in flight
InterpretCall(rev, key, input) ==
  [id |-> FreshId, kind |-> "interpretCommand", pc |-> "generateContent",
   rev |-> rev, key |-> key, input |-> input, answer |-> "none",
   result |-> Rejected("none")]

interpretCommand_call(rev, key, input) ==
  /\ CanStart
  /\ nextId' = nextId + 1
  /\ tasks' = tasks \cup {InterpretCall(rev, key, input)}
  /\ ev' = Mid
  /\ UNCHANGED <<others, v3only, faults, jobInput, isProcessing, discoveredJobs,
                 currentJob, match, automationStep, logs, applications>>

\* the promise settles: the request was answered, or none was made
interpretCommand_resume(t, kind, cmd) ==
  /\ t.kind = "interpretCommand"
  /\ LET r == IF t.rev = "gemini.ts"
              THEN interpretCommand(t.key, kind, cmd)
              ELSE P3_interpretCommand(t.key, kind, cmd)
     IN ev' = Event("interpretCommand", [t EXCEPT !.answer = kind, !.result = r])
  /\ tasks' = tasks \ {t}
  /\ faults' = Fault(kind)
  /\ UNCHANGED <<others, v3only, jobInput, isProcessing, discoveredJobs, currentJob,
                 match, automationStep, logs, applications, nextId>>

(* App: the command agent and the background tasks, App.tsx:103-111,       *)
(* 146-169 and 220-225                                                       *)

\* the commands CommandTerminal hands to onExecute: the action, and
\* params.target_tab or the query
GlobalCommands ==
  {[action |-> "blocked", arg |-> ""],
   [action |-> "switch_tab", arg |-> "roadmap"],
   [action |-> "switch_tab", arg |-> ""],
   [action |-> "start_interview", arg |-> ""],
   [action |-> "search_jobs", arg |-> "react"],
   [action |-> "search_jobs", arg |-> ""]}

\* the tabs of the navigation of Layout
Tabs == {"discover", "roadmap", "history"}

\* updateTask(id, {status}), App.tsx:103-111
updateTask(id, status) == [stateTasks EXCEPT ![id] = status]

\* the derived flag handed to Layout as isProcessing, App.tsx:182
anyTaskRunning == \E id \in DOMAIN stateTasks : stateTasks[id] = "running"

\* a click in the navigation
setActiveTab(tab) ==
  /\ app = "App"
  /\ session
  /\ tab # activeTab
  /\ activeTab' = tab
  /\ ev' = Event("setActiveTab", NoTask)
  /\ UNCHANGED <<jobHunter, applications, faults, nextId, app, session, supabase,
                 error, stateProfile, saved, appTasks, isCommandProcessing,
                 stateTasks, roadmap>>

\* handleGlobalCommand up to its await, or to its end where it awaits nothing
handleGlobalCommand(cmd) ==
  /\ app = "App"
  /\ session
  /\ LET t == AppTask("handleGlobalCommand", "entry") IN
     IF cmd.action = "blocked" \/ stateProfile = Null
     THEN /\ ev' = Event("handleGlobalCommand", [t EXCEPT !.pc = "returned"])
          /\ UNCHANGED <<activeTab, isCommandProcessing, stateTasks, appTasks, nextId>>
     ELSE IF cmd.action = "search_jobs" /\ cmd.arg # ""
     THEN /\ CanStart
          /\ isCommandProcessing' = TRUE
          /\ stateTasks' = updateTask("discovery", "running")
          /\ appTasks' = appTasks \cup {[t EXCEPT !.pc = "search"]}
          /\ nextId' = nextId + 1
          /\ ev' = Mid
          /\ UNCHANGED activeTab
     ELSE /\ activeTab' = CASE cmd.action = "switch_tab" /\ cmd.arg # "" -> cmd.arg
                            [] cmd.action = "start_interview" -> "interview"
                            [] OTHER -> activeTab
          /\ isCommandProcessing' = FALSE
          /\ ev' = Event("handleGlobalCommand", [t EXCEPT !.pc = "done"])
          /\ UNCHANGED <<stateTasks, appTasks, nextId>>
  /\ UNCHANGED <<jobHunter, applications, faults, app, session, supabase, error,
                 stateProfile, saved, roadmap>>

\* searchJobsPro settles, App.tsx:157-167: with n jobs, or rejected
handleGlobalCommand_resume(t, outcome, n) ==
  /\ app = "App"
  /\ t.kind = "handleGlobalCommand"
  /\ IF outcome = "ok"
     THEN /\ discoveredJobs' = [k \in 1..n |-> DiscoveredJob(k)]
          /\ stateTasks' = updateTask("discovery", "completed")
          /\ activeTab' = "discover"
          /\ ev' = Event("handleGlobalCommand", [t EXCEPT !.pc = "done", !.outcome = outcome])
          /\ UNCHANGED error
     ELSE /\ error' = "Agent command failed"
          /\ ev' = Event("handleGlobalCommand", [t EXCEPT !.pc = "failed", !.outcome = outcome])
          /\ UNCHANGED <<discoveredJobs, stateTasks, activeTab>>
  /\ isCommandProcessing' = FALSE
  /\ appTasks' = appTasks \ {t}
  /\ faults' = StoreFault(outcome)
  /\ UNCHANGED <<component, profile, jobInput, isProcessing, isDiscovering, currentJob,
                 match, mutationReport, generatedArtifacts, automationStep, logs,
                 isBulkActive, bulkProgress, stopBulkRef, risk, activeStrategy, tasks,
                 applications, nextId, app, session, supabase, stateProfile, saved,
                 roadmap>>

\* onTrigger of RoadmapAgent, App.tsx:220-225, up to its await
onTrigger ==
  /\ app = "App"
  /\ session /\ stateProfile # Null
  /\ activeTab = "roadmap"
  /\ CanStart
  /\ stateTasks' = updateTask("roadmap", "running")
  /\ appTasks' = appTasks \cup {AppTask("onTrigger", "roadmap")}
  /\ nextId' = nextId + 1
  /\ ev' = Mid
  /\ UNCHANGED <<jobHunter, applications, faults, app, session, supabase, error,
                 stateProfile, saved, activeTab, isCommandProcessing, roadmap>>

\* generateCareerRoadmap settles; a rejection is caught nowhere
onTrigger_resume(t, outcome) ==
  /\ app = "App"
  /\ t.kind = "onTrigger"
  /\ IF outcome = "ok"
     THEN /\ roadmap' = Some("roadmap")
          /\ stateTasks' = updateTask("roadmap", "completed")
          /\ ev' = Event("onTrigger", [t EXCEPT !.pc = "done", !.outcome = outcome])
     ELSE /\ ev' = Event("onTrigger", [t EXCEPT !.pc = "failed", !.outcome = outcome])
          /\ UNCHANGED <<roadmap, stateTasks>>
  /\ appTasks' = appTasks \ {t}
  /\ faults' = StoreFault(outcome)
  /\ UNCHANGED <<jobHunter, applications, nextId, app, session, supabase, error,
                 stateProfile, saved, activeTab, isCommandProcessing>>

-----------------------------------------------------------------------------
(* The environment: the answers of the hosted model, and the specifications *)

\* the answers other than the one asked for, while the model may still fail
Faulty == IF faults < MaxFaults THEN ResponseKinds \ {"json"} ELSE {}

Answer(kind, data, score, n) == [kind |-> kind, data |-> data, score |-> score, n |-> n]

NoData == [title |-> Undefined, company |-> Undefined, applyUrl |-> ""]

\* the input of the extraction a task awaits
InputOf(t) ==
  IF t.kind = "runBulkDeployment" THEN t.queue[t.i + 1].url ELSE t.input

\* the outcomes of the call, or of the timer, a task awaits
Answers(t) ==
  LET pc == t.pc IN
  CASE pc = "extract" ->
         {Answer("json", d, 0, 0) : d \in JobData(InputOf(t))}
         \cup {Answer(k, NoData, 0, 0) : k \in Faulty}
    [] pc = "match" ->
         {Answer("json", NoData, sc, 0) : sc \in Scores}
         \cup {Answer(k, NoData, 0, 0) : k \in Faulty}
    [] pc = "search" ->
         {Answer("json", NoData, 0, n) : n \in 1..MaxQueue}
         \cup {Answer(k, NoData, 0, 0) : k \in Faulty}
    [] pc \in {"cl", "mut", "plan"} ->
         {Answer(k, NoData, 0, 0) : k \in {"json"} \cup Faulty}
    [] OTHER -> {Answer("json", NoData, 0, 0)}

startAutomation_settles ==
  \E t \in tasks : \E a \in Answers(t) : startAutomation_resume(t, a.kind)

runBulkDeployment_settles ==
  \E t \in tasks : \E a \in Answers(t) :
    runBulkDeployment_resume(t, a.kind, a.data, a.score)

processJob_settles ==
  \E t \in tasks : \E a \in Answers(t) : processJob_resume(t, a.kind, a.data, a.score)

handleCommand_settles ==
  \E t \in tasks : \E a \in Answers(t) : handleCommand_resume(t, a.kind, a.n)

discoverJobs_settles ==
  \E t \in tasks : \E a \in Answers(t) : discoverJobs_resume(t, a.kind, a.n)

processInput_settles ==
  \E t \in tasks : \E a \in Answers(t) :
    processInput_resume(t, a.kind, a.data, a.score, a.n)

JH_startAutomation_settles ==
  \E t \in tasks : \E a \in Answers(t) : JH_startAutomation_resume(t, a.kind)

P1_startTailoring_settles ==
  \E t \in tasks : \E a \in Answers(t) : P1_startTailoring_resume(t, a.kind)

\* the risk gate: the pause and resume commands and the Override button
Gate ==
  \/ \E cmd \in LockCommands : handleCommand(cmd)
  \/ Override

\* what the user of part_000 does about the bulk runner
UserBulk ==
  \/ discoverJobs
  \/ runBulkDeployment
  \/ Gate

SettlesBulk ==
  \/ discoverJobs_settles
  \/ runBulkDeployment_settles

\* what the user of part_000 does about one job
UserSingle ==
  \/ \E k \in 1..MaxQueue : handleIngest(k)
  \/ startAutomation
  \/ Discard

SettlesSingle ==
  \/ processJob_settles
  \/ startAutomation_settles

UserHunter ==
  \/ \E v \in TypedInputs : setJobInput(v)
  \/ JH_processInput
  \/ \E k \in 1..MaxQueue : JH_pick(k)
  \/ JH_startAutomation
  \/ JH_close

SettlesHunter ==
  \/ processInput_settles
  \/ JH_startAutomation_settles
  \/ \E t \in tasks : JH_timer(t)

UserTailor ==
  \/ P1_processInput
  \/ \E k \in 1..MaxQueue : P1_pick(k)
  \/ \E cmd \in P1_Commands : P1_handleCommand(cmd)
  \/ P1_startTailoring
  \/ P1_close

SettlesTailor == P1_startTailoring_settles

\* no handler is in flight and no timer is pending
Idle == tasks = {}

Next ==
  \/ UserBulk
  \/ SettlesBulk
  \/ UserSingle
  \/ SettlesSingle
  \/ \E cmd \in Commands \ LockCommands : handleCommand(cmd)
  \/ handleCommand_settles
  \/ UserHunter
  \/ SettlesHunter
  \/ UserTailor
  \/ SettlesTailor

\* part_000 mounted for a user who has a resume track
InitV3 == Init /\ component = "V3" /\ profile.resumeTracks # <<>>

\* the whole model
Spec == Init /\ [][Next]_vars

\* a user of part_000 who waits for the handler in flight before the next
\* click or command
NextV3 ==
  \/ Idle /\ discoverJobs
  \/ Idle /\ runBulkDeployment
  \/ Idle /\ (\E cmd \in LockCommands : handleCommand(cmd))
  \/ Idle /\ Override
  \/ Idle /\ (\E k \in 1..MaxQueue : handleIngest(k))
  \/ Idle /\ startAutomation
  \/ Idle /\ Discard
  \/ SettlesBulk
  \/ SettlesSingle

SpecV3 == InitV3 /\ [][NextV3]_vars

\* discovery and the bulk runner, with the risk gate moving at any time
NextBulk ==
  \/ UserBulk
  \/ SettlesBulk

SpecBulk == InitV3 /\ [][NextBulk]_vars

\* every awaited call of the bulk runner settles
FairBulk == SpecBulk /\ WF_vars(runBulkDeployment_settles)

\* the single apply cycle of the three revisions, for a user who waits for
\* the handler in flight
NextSingle ==
  \/ Idle /\ discoverJobs
  \/ Idle /\ (\E cmd \in LockCommands : handleCommand(cmd))
  \/ Idle /\ Override
  \/ Idle /\ (\E k \in 1..MaxQueue : handleIngest(k))
  \/ Idle /\ startAutomation
  \/ Idle /\ Discard
  \/ Idle /\ (\E v \in TypedInputs : setJobInput(v))
  \/ Idle /\ JH_processInput
  \/ Idle /\ (\E k \in 1..MaxQueue : JH_pick(k))
  \/ Idle /\ JH_startAutomation
  \/ Idle /\ JH_close
  \/ Idle /\ P1_processInput
  \/ Idle /\ (\E k \in 1..MaxQueue : P1_pick(k))
  \/ Idle /\ (\E cmd \in P1_Commands : P1_handleCommand(cmd))
  \/ Idle /\ P1_startTailoring
  \/ Idle /\ P1_close
  \/ discoverJobs_settles
  \/ SettlesSingle
  \/ SettlesHunter
  \/ SettlesTailor

SpecSingle == Init /\ [][NextSingle]_vars

\* a user of part_000 who starts one handler at a time, with the risk gate
\* moving at any time, also while a handler is in flight
NextGate ==
  \/ Idle /\ discoverJobs
  \/ Idle /\ runBulkDeployment
  \/ Idle /\ (\E k \in 1..MaxQueue : handleIngest(k))
  \/ Idle /\ startAutomation
  \/ Idle /\ Discard
  \/ \E cmd \in LockCommands : handleCommand(cmd)
  \/ Override
  \/ SettlesBulk
  \/ SettlesSingle

SpecGate == InitV3 /\ [][NextGate]_vars

\* the commands that await nothing
SyncCommands == {c \in Commands : c.action \in {"blocked", "pause", "resume"}}

\* discovery, the bulk runner and the commands that await a call, started
\* while nothing is in flight, with the other commands given at any time
NextCommand ==
  \/ \E cmd \in SyncCommands : handleCommand(cmd)
  \/ Idle /\ (\E cmd \in Commands \ SyncCommands : handleCommand(cmd))
  \/ handleCommand_settles
  \/ Override
  \/ Idle /\ discoverJobs
  \/ Idle /\ runBulkDeployment
  \/ SettlesBulk

SpecCommand == InitV3 /\ [][NextCommand]_vars

\* the store answers a handler of App
StoreAnswers == {"ok"} \cup StoreFaulty

fetchCloudData_settles ==
  \E t \in appTasks : \E o \in StoreAnswers : fetchCloudData_resume(t, o)

handleUpdateProfile_settles ==
  \E t \in appTasks : \E o \in StoreAnswers : handleUpdateProfile_resume(t, o)

RD_handleNewApplication_settles ==
  \E t \in appTasks : \E o \in StoreAnswers : RD_handleNewApplication_resume(t, o)

P2_handleNewApplication_settles ==
  \E t \in appTasks : \E o \in StoreAnswers : P2_handleNewApplication_resume(t, o)

\* App.tsx before a user signs in: the store holds the row of an earlier
\* session, or none
InitStore ==
  /\ JobHunterInit /\ component = "V3"
  /\ profile = [matchThreshold |-> 0, resumeTracks |-> <<Track>>]
  /\ app = "App"
  /\ session = FALSE
  /\ \E r \in {Null, Some(InitialRow)} :
       supabase = [profiles |-> r, applications |-> <<>>]
  /\ error = ""
  /\ stateProfile = Null
  /\ saved = Null
  /\ appTasks = {}
  /\ AgentInit

NextStore ==
  \/ signIn
  \/ signOut
  \/ reload
  \/ fetchCloudData_settles
  \/ \E p \in UserProfiles : handleUpdateProfile(p)
  \/ handleUpdateProfile_settles

SpecStore == InitStore /\ [][NextStore]_vars

\* the revisions of App that save each application, with a user signed in
InitApply ==
  /\ JobHunterInit /\ component = "V3"
  /\ profile = [matchThreshold |-> 0, resumeTracks |-> <<Track>>]
  /\ app \in {"README", "P2"}
  /\ session = TRUE
  /\ supabase = [profiles |-> Some(InitialRow), applications |-> <<>>]
  /\ error = ""
  /\ stateProfile = Some(FromRow(InitialRow))
  /\ saved = Null
  /\ appTasks = {}
  /\ AgentInit

NextApply ==
  \/ \E log \in AppLogs : handleNewApplication(log)
  \/ RD_handleNewApplication_settles
  \/ P2_handleNewApplication_settles
  \/ dismiss

SpecApply == InitApply /\ [][NextApply]_vars

\* part_000 and JobHunter.tsx, for a user who waits for the handler in
\* flight and for the reset before the next click
InitProof ==
  /\ Init
  /\ component \in {"V3", "Hunter"}
  /\ profile = [matchThreshold |-> 50, resumeTracks |-> <<Track>>]

NextProof ==
  \/ Idle /\ discoverJobs
  \/ Idle /\ runBulkDeployment
  \/ Idle /\ (\E k \in 1..MaxQueue : handleIngest(k))
  \/ Idle /\ startAutomation
  \/ Idle /\ Discard
  \/ Idle /\ (\E v \in TypedInputs : setJobInput(v))
  \/ Idle /\ JH_processInput
  \/ Idle /\ (\E k \in 1..MaxQueue : JH_pick(k))
  \/ Idle /\ JH_startAutomation
  \/ Idle /\ JH_close
  \/ SettlesBulk
  \/ SettlesSingle
  \/ SettlesHunter

SpecProof == InitProof /\ [][NextProof]_vars

interpretCommand_settles ==
  \E t \in tasks : \E kind \in {"json"} \cup Faulty : \E cmd \in ModelCommands :
    interpretCommand_resume(t, kind, cmd)

\* the terminal, with either revision of the service and with or without an
\* API key in the environment
InitInterpret ==
  /\ Init
  /\ component = "V3"
  /\ profile = [matchThreshold |-> 50, resumeTracks |-> <<Track>>]

NextInterpret ==
  \/ \E rev \in GeminiRevisions : \E key \in BOOLEAN : \E input \in TerminalInputs :
       interpretCommand_call(rev, key, input)
  \/ interpretCommand_settles

SpecInterpret == InitInterpret /\ [][NextInterpret]_vars

\* what a call of the command agent comes to: a value, or a rejection
AgentAnswers == {"ok"} \cup (IF faults < MaxFaults THEN {"throw"} ELSE {})

handleGlobalCommand_settles ==
  \E t \in appTasks : \E o \in AgentAnswers : \E n \in 1..MaxQueue :
    handleGlobalCommand_resume(t, o, n)

onTrigger_settles ==
  \E t \in appTasks : \E o \in AgentAnswers : onTrigger_resume(t, o)

\* App.tsx with a user signed in who uses the terminal, the navigation and
\* the roadmap tab
InitAgent ==
  /\ Init
  /\ component = "V3"
  /\ profile = [matchThreshold |-> 50, resumeTracks |-> <<Track>>]

NextAgent ==
  \/ \E cmd \in GlobalCommands : handleGlobalCommand(cmd)
  \/ handleGlobalCommand_settles
  \/ \E tab \in Tabs : setActiveTab(tab)
  \/ onTrigger
  \/ onTrigger_settles

SpecAgent == InitAgent /\ [][NextAgent]_vars

\* JobHunter.tsx mounted, with its handlers overlapping as its input field,
\* its listing and its timer allow
InitHunter ==
  /\ Init
  /\ component = "Hunter"
  /\ profile = [matchThreshold |-> 50, resumeTracks |-> <<Track>>]

\* a posting's address and a search query
HunterInputs == {"https://acme.example/jobs/1", "staff engineer"}

NextHunter ==
  \/ \E v \in HunterInputs : setJobInput(v)
  \/ JH_processInput
  \/ \E k \in 1..MaxQueue : JH_pick(k)
  \/ JH_startAutomation
  \/ JH_close
  \/ SettlesHunter

SpecHunter == InitHunter /\ [][NextHunter]_vars

\* part_000 with its handlers overlapping as its buttons allow: the listing
\* stays clickable during a bulk run
NextOverlap ==
  \/ UserBulk
  \/ SettlesBulk
  \/ UserSingle
  \/ SettlesSingle

SpecOverlap == InitV3 /\ [][NextOverlap]_vars

-----------------------------------------------------------------------------
(* Properties *)

\* the invocation of a single apply cycle returned or threw in the last step
SingleOver == ev.t.kind \in SingleKinds /\ ev.t.over /\ ev.op # "timer"

\* the last step finished an iteration of a bulk run
IterationOver ==
  /\ ev.op = "runBulkDeployment"
  /\ ev.t.pc \in {"iteration done", "iteration skipped", "iteration failed"}

\* the bulk run returned in the last step, having entered its loop
BulkOver == IterationOver /\ ev.t.over

\* C1: every log a single apply cycle (startAutomation, startTailoring) has
\* emitted with status COMPLETED carries a cover letter, a mutated resume and
\* a verification proof, all three populated.
C1_LogCarriesArtifacts ==
  \A n \in 1..Len(applications) :
    applications[n].status = COMPLETED =>
      /\ applications[n].coverLetter # Undefined
      /\ applications[n].mutatedResume # Undefined
      /\ applications[n].verification # NoProof

\* C2: a gated handler (startAutomation, runBulkDeployment, processJob,
\* discoverJobs) invoked while risk.isLocked is true returns at its entry: it
\* is never in flight, has called no collaborator, has entered no status and
\* has emitted no log.
C2_LockedCallsNothing ==
  /\ \A t \in tasks : t.kind \in GatedKinds => ~t.locked
  /\ (ev.t.kind \in GatedKinds /\ ev.t.locked) =>
       /\ ev.t.pc = "returned"
       /\ ev.t.calls = 0
       /\ ev.t.emitted = 0
       /\ ev.t.trace = <<>>

\* startAutomation was turned away by the gate, with a job extracted and scored
C2_Witness ==
  /\ ev.op = "startAutomation"
  /\ ev.t.pc = "returned"
  /\ ev.t.locked
  /\ currentJob # NoJob
  /\ match # NoMatch

\* C3: when a single apply cycle or a bulk run is requested while the gate is
\* locked, the status becomes RISK_HALT and a log line giving the reason is
\* appended.
C3_LockedHalts ==
  (ev.op \in {"startAutomation", "runBulkDeployment"} /\ ev.t.pc = "returned"
     /\ ev.t.locked)
    => (automationStep = RISK_HALT /\ logs # <<>>)

\* C4: a bulk run over N jobs emits at most one log per job it has started,
\* so at most N, and the job of each log it emits was scored at or above the
\* threshold in force.
C4_BulkEmitsAboveThreshold ==
  /\ \A t \in tasks \cup {ev.t} :
       t.kind = "runBulkDeployment" =>
         (t.emitted <= t.started /\ t.started <= Len(t.queue))
  /\ (ev.op = "runBulkDeployment" /\ ev.t.pc = "iteration done") =>
       /\ ev.t.score >= Threshold(profile)
       /\ applications # <<>>
       /\ applications[1].jobId = ev.t.job.id

\* a bulk run over two jobs ended with one log emitted and one job skipped
C4_Witness ==
  /\ BulkOver
  /\ Len(ev.t.queue) = 2
  /\ ev.t.emitted = 1
  /\ ev.t.skipped = 1

\* C5: a single apply cycle in which a collaborator call rejected, or in
\* which the proof step threw, ends with status FAILED and has not called
\* onApply.
C5_RejectionFails ==
  (SingleOver /\ (ev.t.rejected \/ ev.t.threw)) =>
    (automationStep = FAILED /\ ev.t.emitted = 0)

\* mutateResume rejected in a cycle of part_000, after the cover letter
C5_Witness ==
  /\ SingleOver
  /\ ev.t.kind = "startAutomation"
  /\ ev.t.rejected
  /\ ev.t.trace = <<GENERATING_CL, MUTATING_RESUME, FAILED>>

\* C6: a single apply cycle over a job already extracted and scored, in a
\* behaviour where the hosted model answered every call as asked, ends with
\* status COMPLETED and with exactly one log, which carries the id, title and
\* company of the job.
C6_SuccessCompletes ==
  (SingleOver /\ ev.t.pc # "returned" /\ ~ev.t.rejected /\ faults = 0) =>
    /\ automationStep = COMPLETED
    /\ ev.t.emitted = 1
    /\ applications # <<>>
    /\ applications[1].jobId = ev.t.job.id
    /\ applications[1].jobTitle = ev.t.job.title
    /\ applications[1].company = ev.t.job.company

\* C7: a status of FAILED or COMPLETED changes only in a step that starts a
\* new run, or when the user discards the job; the cleanup at the end of a
\* handler and the delayed reset leave it alone.
C7_TerminalStays ==
  [][(automationStep \in {FAILED, COMPLETED} /\ automationStep' # automationStep)
       => (nextId' # nextId \/ ev'.op = "Discard")]_vars

ApplyStages == <<GENERATING_CL, MUTATING_RESUME, APPLYING, VERIFYING, COMPLETED>>

IsApplyStage(s) == \E n \in 1..Len(ApplyStages) : ApplyStages[n] = s

\* C8: a single apply cycle, or an iteration of a bulk run, that has emitted
\* its log entered GENERATING_CL, MUTATING_RESUME, APPLYING, VERIFYING and
\* COMPLETED, each once, in this order.
C8_StagesInOrder ==
  ((ev.op = "runBulkDeployment" /\ ev.t.pc = "iteration done")
     \/ (SingleOver /\ ev.t.pc = "done"))
    => SelectSeq(ev.t.trace, IsApplyStage) = ApplyStages

\* C10: a bulk run that has returned started every job of its queue, and
\* left isBulkActive false and the status PENDING; and a bulk run in flight
\* does return, when every call it awaits settles.
C10_BatchRunsToEnd ==
  /\ [](BulkOver =>
          /\ ev.t.started = Len(ev.t.queue)
          /\ ev.t.i = Len(ev.t.queue)
          /\ ~isBulkActive
          /\ automationStep = PENDING)
  /\ (Running("runBulkDeployment") ~> BulkOver)

\* a bulk run over two jobs returned after the iteration of its first job
\* had failed
C10_Witness ==
  /\ BulkOver
  /\ Len(ev.t.queue) = 2
  /\ ev.t.failed >= 1
  /\ ev.t.pc # "iteration failed"

\* the task sets automationStep when it resumes
WritesStatus(t) ==
  \/ t.kind \in SingleKinds \cup {"runBulkDeployment", "processJob", "processInput"}
  \/ t.kind = "handleCommand" /\ t.pc = "plan"

\* C11: at most one run that writes the workflow status is in flight at any
\* time: a request made while a single run or a bulk run is in progress
\* starts nothing.
C11_OneRunAtATime == Cardinality({t \in tasks : WritesStatus(t)}) <= 1


\* the task awaits a call of an AI collaborator (not a delay or the proof step)
AwaitsCollaborator(t) == t.pc \in {"extract", "match", "mut", "cl", "plan", "search"}

\* C12: while a bulk run is active at most one collaborator request is in
\* flight: the bulk run awaits each call before the next, and no other entry
\* point issues a collaborator call during the bulk run.
C12_BulkCallsSerial ==
  isBulkActive => Cardinality({t \in tasks : AwaitsCollaborator(t)}) <= 1

\* the status of the call that rejected in the run (iteration) of t
FailedAt(t) ==
  LET n == Len(t.trace) IN
    IF n = 0 THEN PENDING
    ELSE IF t.trace[n] = FAILED /\ n > 1 THEN t.trace[n - 1] ELSE t.trace[n]

\* C13: a reply of the resume-mutation model that does not parse never makes
\* mutateResume reject: no run fails at MUTATING_RESUME with the parse error
\* (the fallback resume is returned instead).
C13_GarbageMutationFallsBack ==
  ~(ev.t.rejected /\ FailedAt(ev.t) = MUTATING_RESUME /\ ev.t.msg = "SyntaxError")

\* C14: when the store write of a log fails the log is still added to
\* state.applications and a warning is raised: the error banner or a line on
\* the console.
C14_FailedWriteKeepsLog ==
  (ev.op = "handleNewApplication" /\ ev.t.outcome # "ok")
    => /\ \E i \in 1..Len(applications) : applications[i].log = ev.t.log
       /\ (error # "" \/ ev.t.warned)

\* the last step ended an iteration of the bulk run below the threshold
IterationSkipped == ev.op = "runBulkDeployment" /\ ev.t.pc = "iteration skipped"

\* C15: a bulk job below the threshold emits no log to onApply, and the step
\* that skips it appends a line to the telemetry log that reports the skip
\* (a line other than the DISPATCHING line of the next job).
C15_SkipIsReported ==
  IterationSkipped =>
    /\ ev.t.emitted + ev.t.failed + ev.t.skipped = ev.t.i
    /\ \E k \in 1..Len(logs) : logs[k].tag # "DISPATCHING MISSION"

\* the queue entries the bulk run has started so far
StartedSoFar ==
  IF \E t \in tasks : t.kind = "runBulkDeployment"
  THEN (CHOOSE t \in tasks : t.kind = "runBulkDeployment").started
  ELSE ev.t.started

\* C16: in every state 0 <= bulkProgress.current <= bulkProgress.total; after
\* an iteration of the bulk run ends (emitted, failed or skipped) current is
\* the number of entries started so far and total is the length of the
\* queue; when the run ends current = total.
C16_ProgressCounts ==
  /\ 0 <= bulkProgress.current /\ bulkProgress.current <= bulkProgress.total
  /\ IterationOver =>
       /\ bulkProgress.total = Len(ev.t.queue)
       /\ bulkProgress.current = StartedSoFar
  /\ BulkOver => bulkProgress.current = bulkProgress.total

C16_Witness ==
  /\ BulkOver
  /\ bulkProgress = [current |-> 2, total |-> 2]
  /\ ev.t.skipped >= 1
  /\ ev.t.failed >= 1

\* C17: no apply cycle calls generateCoverLetter or mutateResume for a profile
\* whose resumeTracks is empty, and processInput called with an empty or
\* blank input returns without calling a collaborator.
C17_EmptyInputsCallNothing ==
  /\ profile.resumeTracks = <<>> =>
       \A t \in tasks : t.kind \in SingleKinds => t.calls = 0
  /\ (ev.op = "processInput" /\ trimIsEmpty(ev.t.input)) =>
       ev.t.pc = "returned" /\ ev.t.calls = 0

\* the last step was the catch of a single-job handler
SingleFailed ==
  /\ ev.t.kind \in SingleKinds \cup {"processJob", "processInput"}
  /\ ev.t.pc = "failed"

\* the last step was the catch of an iteration of the bulk run
IterationFailed == ev.t.kind = "runBulkDeployment" /\ ev.t.pc = "iteration failed"

\* C18: the step that fails a run or an iteration of the bulk run appends a
\* line to the log, and for a single-job run a line that carries the message
\* of the error caught.
C18_FailureIsLogged ==
  /\ (SingleFailed \/ IterationFailed) => Len(logs) >= 1
  /\ SingleFailed => \E k \in 1..Len(logs) : logs[k].detail = ev.t.msg

\* fetchCloudData has just loaded a row that an upsert of handleUpdateProfile
\* wrote
Reloaded == ev.op = "fetchCloudData" /\ ev.t.pc = "done" /\ ev.t.began # Null

\* C19: a profile saved through handleUpdateProfile and loaded again through
\* fetchCloudData is equal, field for field, to the profile that was saved.
C19_ProfileRoundTrip == Reloaded => stateProfile = ev.t.began

C19_Witness ==
  /\ Reloaded
  /\ stateProfile = Some(UserProfile("", <<>>, DefaultThreshold))

\* C20: while a collaborator call of a step is in flight automationStep is
\* the status of that step; after the step that fails a handler it is
\* FAILED, and after the step that completes an apply run it is COMPLETED.
C20_StatusIsCurrent ==
  /\ \A t \in tasks :
       AwaitsCollaborator(t) /\ WritesStatus(t) =>
         automationStep = t.trace[Len(t.trace)]
  /\ SingleFailed => automationStep = FAILED
  /\ (SingleOver /\ ev.t.pc = "done") => automationStep = COMPLETED

\* the gate was locked after the run of the last step had passed its entry
LockedInFlight == risk.isLocked /\ ~ev.t.locked

\* C21: the risk lock is read at the entry of a run only: a run that was in
\* flight when the gate was locked ends as it would have, by completing or by
\* a rejected call, and a bulk run ends only after it started every entry of
\* its queue.
C21_LockReadAtEntryOnly ==
  /\ BulkOver => ev.t.started = Len(ev.t.queue)
  /\ IterationFailed => (ev.t.rejected \/ ev.t.threw)
  /\ (ev.t.kind \in SingleKinds \cup {"processJob"} /\ ev.t.over
        /\ ev.t.pc # "returned") =>
       \/ ev.t.pc = "done"
       \/ ev.t.pc = "failed" /\ (ev.t.rejected \/ ev.t.threw)

C21_Witness ==
  /\ BulkOver
  /\ LockedInFlight
  /\ Len(ev.t.queue) = 2
  /\ ev.t.emitted >= 1

\* C22: the command 'pause' sets risk.isLocked to TRUE and 'resume' sets it
\* to FALSE, and neither changes the other fields of risk, automationStep,
\* discoveredJobs or applications, nor starts a call; 'blocked' changes only
\* the log lines.
C22_PauseResumeFrame ==
  [][/\ ev'.op \in {"pause", "resume"} =>
          /\ risk' = [risk EXCEPT !.isLocked = (ev'.op = "pause")]
          /\ UNCHANGED <<automationStep, discoveredJobs, applications, tasks,
                         faults, activeStrategy, isDiscovering, isBulkActive>>
     /\ ev'.op = "blocked" =>
          UNCHANGED <<risk, automationStep, discoveredJobs, applications, tasks,
                      faults, activeStrategy, isDiscovering, isBulkActive,
                      bulkProgress, currentJob, match, jobInput, isProcessing>>
    ]_vars

C22_Witness ==
  /\ ev.op = "pause"
  /\ isBulkActive
  /\ automationStep # PENDING
  /\ Len(applications) >= 1

\* C23: a 'strategy' command with a goal sets the status to STRATEGIZING and
\* calls createStrategyPlan; the step in which the call settles, resolved or
\* rejected, sets the status to PENDING after that one call, and on a
\* rejection leaves activeStrategy as it was and appends exactly one line, the
\* error line.
C23_StrategySettles ==
  [][/\ (\E t \in tasks' \ tasks : t.kind = "handleCommand" /\ t.pc = "plan") =>
          automationStep' = STRATEGIZING
     /\ (ev'.op = "strategy" /\ ev'.t.kind = "handleCommand") =>
          /\ automationStep' = PENDING
          /\ ev'.t.calls = 1
          /\ ev'.t.rejected =>
               /\ activeStrategy' = activeStrategy
               /\ Len(logs') = 1
               /\ logs'[1].tag = "STRATEGY ERROR"
    ]_vars

C23_Witness ==
  /\ ev.op = "strategy" /\ ev.t.kind = "handleCommand"
  /\ ev.t.rejected
  /\ automationStep = PENDING

\* C24: the bulk runner skips a scored job only when its score is below
\* profile.preferences.matchThreshold, for every threshold the profile
\* defines, 0 included.
C24_ThresholdIsTheProfiles ==
  IterationSkipped => ev.t.score < profile.matchThreshold

\* C25: each onApply call adds exactly one entry, the log it was called
\* with, to state.applications and keeps the entries already there, in their
\* order; no other step changes state.applications.
C25_ApplyAddsOne ==
  [][/\ ev'.op = "handleNewApplication" =>
          \E e \in {Entry(ev'.t.log, k) : k \in 0..MaxOps} :
            \/ applications' = <<e>> \o applications
            \/ applications' = applications \o <<e>>
     /\ ev'.op # "handleNewApplication" => applications' = applications
    ]_vars

\* a run of processInput or startAutomation that awaits a call or the delay
InFlight(t) == t.kind \in {"processInput", "JH_startAutomation"} /\ t.pc # "timer"

\* C26: the reset that a completed run scheduled leaves a run begun since
\* (one that was called while the status read COMPLETED) alone: it does not
\* overwrite that run's status and does not clear the job that run works on.
C26_ResetOwnRunOnly ==
  [][ev'.op = "timer" =>
       \A t \in tasks' : (InFlight(t) /\ t.cap = COMPLETED) =>
         /\ automationStep' = automationStep
         /\ ((t.kind = "JH_startAutomation" \/ t.pc = "match")
               => currentJob' = currentJob)
    ]_vars

\* C27: isProcessing is TRUE exactly while a run of processInput or of
\* startAutomation awaits a call.
C27_ProcessingWhileInFlight ==
  component = "Hunter" => (isProcessing <=> \E t \in tasks : InFlight(t))

\* a handler of the command agent awaits its call
AgentInFlight == \E t \in appTasks : t.kind \in {"handleGlobalCommand", "onTrigger"}

\* C28: once handleGlobalCommand and the roadmap trigger have finished,
\* with their call resolved or rejected, isCommandProcessing is FALSE and no
\* task of state.tasks reads 'running'.
C28_NothingLeftRunning ==
  (app = "App" /\ ~AgentInFlight) => (~isCommandProcessing /\ ~anyTaskRunning)

\* the single apply cycle that ended in the last step had its cover letter
\* and its mutated resume, for a job whose applyUrl is the placeholder
PlaceholderSingle ==
  /\ ev.op \in {"startAutomation", "JH_startAutomation"}
  /\ ev.t.over /\ ev.t.calls = 2 /\ ~ev.t.rejected
  /\ ev.t.job.applyUrl = "#"

\* the same for the iteration of a bulk run that ended in the last step
PlaceholderIteration ==
  /\ IterationOver
  /\ ev.t.calls = 4 /\ ~ev.t.rejected
  /\ ev.t.job.applyUrl = "#"

\* C29: a job whose applyUrl is "#" makes the verification step throw once
\* the cover letter and the mutated resume are there: the single run ends
\* FAILED, the iteration of a bulk run is counted as failed, and no log is
\* ever emitted for such a job.
C29_PlaceholderUrlFails ==
  /\ PlaceholderSingle =>
       /\ ev.t.threw
       /\ ev.t.pc = "failed"
       /\ automationStep = FAILED
       /\ ev.t.emitted = 0
  /\ PlaceholderIteration =>
       /\ ev.t.threw
       /\ ev.t.pc = "iteration failed"
       /\ ev.t.failed >= 1
  /\ \A k \in 1..Len(applications) : applications[k].url # "#"

C29_Witness ==
  /\ PlaceholderIteration
  /\ ev.t.failed = 1 /\ ev.t.emitted = 1

\* the call that settled in the last step got no command from the model: no
\* key, a failed request or text that does not parse
NoCommand == ~ev.t.key \/ ev.t.answer \in {"garbage", "error"}

\* C30: interpretCommand never rejects: without a key, with a failed request
\* or with text that does not parse it resolves to 'blocked' with a reason,
\* and with an empty response it resolves to 'blocked'.
C30_InterpretNeverRejects ==
  ev.op = "interpretCommand" =>
    /\ ev.t.result.settled = "resolved"
    /\ NoCommand => (ev.t.result.action = "blocked" /\ ev.t.result.reason # "")
    /\ ev.t.answer = "empty" => ev.t.result.action = "blocked"

============================================================================
